---- MODULE Spec2Model ----
(***************************************************************************)
(* Model of the encrypted-image pipeline of FE_ImageServiceRequirements:   *)
(*   lib/crypto/parse.ts      parseAe                                      *)
(*   lib/crypto/decrypt.ts    hexToBytes, decryptHeadAESGCM                *)
(*   components/EncryptedImage.tsx   the load effect, loadImage,           *)
(*                                   processEncryptedImage                 *)
(*   lib/image/render.ts      renderToCanvas and its fallback chain        *)
(*   scripts/encrypt-webp-samples.js  encryptFile (the container builder)  *)
(*                                                                         *)
(* Byte arrays (Uint8Array, Buffer) are kept run-length encoded: a         *)
(* sequence of runs [b |-> byte, n |-> count] with n > 0 and no two        *)
(* adjacent runs of the same byte.  The encoding is canonical, so equality *)
(* of encodings is equality of byte arrays, and it lets the model keep the *)
(* 1,048,576-byte head of the source instead of a scaled-down one.         *)
(***************************************************************************)
EXTENDS Integers, Sequences, FiniteSets, TLC

(***************************************************************************)
(* Byte arrays                                                             *)
(***************************************************************************)

Undefined == -1   \* reading a typed array outside its bounds

Max2(a, b) == IF a >= b THEN a ELSE b
Min2(a, b) == IF a <= b THEN a ELSE b

Run(b, n) == [b |-> b, n |-> n]

\* n copies of byte b
Rep(b, n) == IF n <= 0 THEN <<>> ELSE <<Run(b, n)>>

\* a.length
RECURSIVE BLen(_)
BLen(a) == IF a = <<>> THEN 0 ELSE Head(a).n + BLen(Tail(a))

\* concatenation (Buffer.concat, Uint8Array.set at an offset)
BCat(a, b) ==
    IF a = <<>> THEN b
    ELSE IF b = <<>> THEN a
    ELSE IF a[Len(a)].b = b[1].b
         THEN SubSeq(a, 1, Len(a) - 1)
                 \o <<Run(b[1].b, a[Len(a)].n + b[1].n)>>
                 \o Tail(b)
         ELSE a \o b

\* the byte array of an explicit list of bytes
RECURSIVE Bytes(_)
Bytes(s) == IF s = <<>> THEN <<>> ELSE BCat(Rep(Head(s), 1), Bytes(Tail(s)))

\* the first k bytes
RECURSIVE BTake(_, _)
BTake(a, k) ==
    IF k <= 0 \/ a = <<>> THEN <<>>
    ELSE IF Head(a).n <= k
         THEN <<Head(a)>> \o BTake(Tail(a), k - Head(a).n)
         ELSE <<Run(Head(a).b, k)>>

\* all but the first k bytes
RECURSIVE BDrop(_, _)
BDrop(a, k) ==
    IF k <= 0 \/ a = <<>> THEN a
    ELSE IF Head(a).n <= k
         THEN BDrop(Tail(a), k - Head(a).n)
         ELSE <<Run(Head(a).b, Head(a).n - k)>> \o Tail(a)

\* TypedArray.prototype.slice's treatment of one index
RelIndex(x, len) == IF x < 0 THEN Max2(len + x, 0) ELSE Min2(x, len)

\* bytes.slice(start, end)
BSlice(a, start, end) ==
    LET len == BLen(a)
        s   == RelIndex(start, len)
        e   == RelIndex(end, len)
    IN  BTake(BDrop(a, s), Max2(e - s, 0))

\* bytes.slice(start)
BSliceFrom(a, start) == BSlice(a, start, BLen(a))

\* bytes[i]
RECURSIVE BAt(_, _)
BAt(a, i) ==
    IF i < 0 \/ a = <<>> THEN Undefined
    ELSE IF i < Head(a).n THEN Head(a).b
    ELSE BAt(Tail(a), i - Head(a).n)

\* the sum of the bytes modulo 256
RECURSIVE BSum(_)
BSum(a) ==
    IF a = <<>> THEN 0
    ELSE ((Head(a).b * (Head(a).n % 256)) + BSum(Tail(a))) % 256

\* every byte shifted by d modulo 256
BShift(a, d) == [i \in 1..Len(a) |-> Run((a[i].b + d) % 256, a[i].n)]

(***************************************************************************)
(* lib/crypto/parse.ts                                                     *)
(***************************************************************************)

headerSize == 4 + 12      \* magic(Format) + IV
cipherSize == 1048576     \* 1MB
tagSize    == 16
minFileSize == headerSize + cipherSize + tagSize

MagicAeia == Bytes(<<97, 101, 105, 97>>)    \* "aeia"
MagicAeiw == Bytes(<<97, 101, 105, 119>>)   \* "aeiw"

\* A thrown Error; kind names the throw statement, message what the catch sees.
Throw(kind) == [ok |-> FALSE, error |-> kind]

\* Variant: the split of the older layout, always cipherSize bytes of
\* ciphertext, without Math.min.
actualCipherSizeFixed(bytes) == cipherSize

\* const actualCipherSize = Math.min(cipherSize, bytes.length - headerSize - tagSize)
actualCipherSize(bytes) == Min2(cipherSize, BLen(bytes) - headerSize - tagSize)

\* if (bytes.length < minFileSize) { ... if (availableCipherSize <= 0) throw ... }
availableCipherSizeRejected(bytes) ==
    /\ BLen(bytes) < minFileSize
    /\ BLen(bytes) - headerSize - tagSize <= 0

\* Variant: a parser that compares only the common prefix "aei" of the magic.
parseAePrefixOnly(bytes) ==
    IF BLen(bytes) < 4 THEN Throw("MagicHeaderMissing")
    ELSE IF BSlice(bytes, 0, 3) # Bytes(<<97, 101, 105>>) THEN Throw("BadMagic")
    ELSE IF availableCipherSizeRejected(bytes) THEN Throw("FileTooSmall")
    ELSE LET cipherStart == headerSize
             cipherEnd   == cipherStart + actualCipherSize(bytes)
         IN  [ok     |-> TRUE,
              format |-> IF BSlice(bytes, 0, 4) = MagicAeia THEN "aeia" ELSE "aeiw",
              iv     |-> BSlice(bytes, 4, headerSize),
              cipher |-> BSlice(bytes, cipherStart, cipherEnd),
              tag    |-> BSlice(bytes, cipherEnd, cipherEnd + tagSize),
              tail   |-> BSliceFrom(bytes, cipherEnd + tagSize)]

\* parseAe(bytes): the magic is decoded one character per byte, so the string
\* comparison with "aeia"/"aeiw" is a comparison of the first four bytes.
parseAe(bytes) ==
    IF BLen(bytes) < 4 THEN Throw("MagicHeaderMissing")
    ELSE LET magic == BSlice(bytes, 0, 4) IN
    IF magic # MagicAeia /\ magic # MagicAeiw THEN Throw("BadMagic")
    ELSE IF availableCipherSizeRejected(bytes) THEN Throw("FileTooSmall")
    ELSE LET cipherStart == headerSize
             cipherEnd   == cipherStart + actualCipherSize(bytes)
         IN  [ok     |-> TRUE,
              format |-> IF magic = MagicAeia THEN "aeia" ELSE "aeiw",
              iv     |-> BSlice(bytes, 4, headerSize),
              cipher |-> BSlice(bytes, cipherStart, cipherEnd),
              tag    |-> BSlice(bytes, cipherEnd, cipherEnd + tagSize),
              tail   |-> BSliceFrom(bytes, cipherEnd + tagSize)]

(***************************************************************************)
(* The platform's AES-256-GCM (crypto.subtle, node:crypto).  The primitive *)
(* is not code of the repository; it is modelled as a length-preserving    *)
(* cipher whose keystream depends on key and IV, with a 16-byte tag that   *)
(* depends on key, IV and ciphertext so that a change of one bit of any of *)
(* them changes the expected tag.                                          *)
(***************************************************************************)

KeyStream(key, iv) == (1 + BSum(key) + 2 * BSum(iv)) % 256

AuthTag(key, iv, cipher) ==
    Rep((BSum(key) + BSum(iv) + BSum(cipher) + BLen(cipher)) % 256, tagSize)

\* cipher.update(data) ++ cipher.final(), cipher.getAuthTag()
AesGcmEncrypt(key, iv, plain) ==
    LET c == BShift(plain, KeyStream(key, iv))
    IN  [cipher |-> c, tag |-> AuthTag(key, iv, c)]

\* crypto.subtle.decrypt({name: "AES-GCM", iv}, key, data): data is the
\* ciphertext followed by the 16-byte tag; rejects with OperationError when
\* the tag does not verify.
AesGcmDecrypt(key, iv, data) ==
    IF BLen(data) < tagSize THEN Throw("OperationError")
    ELSE LET c == BTake(data, BLen(data) - tagSize)
             t == BDrop(data, BLen(data) - tagSize)
         IN  IF t = AuthTag(key, iv, c)
             THEN [ok |-> TRUE, plain |-> BShift(c, 256 - KeyStream(key, iv))]
             ELSE Throw("OperationError")

(***************************************************************************)
(* scripts/encrypt-webp-samples.js: encryptFile                            *)
(***************************************************************************)

ENCRYPT_SIZE == 1048576

\* encryptFile: Format(4) + IV(12) + Ciphertext(<= 1MB) + Tag(16) + plain tail
encryptFile(data, format, key, iv) ==
    LET dataToEncrypt == BSlice(data, 0, Min2(ENCRYPT_SIZE, BLen(data)))
        plainTail     == BSliceFrom(data, BLen(dataToEncrypt))
        enc           == AesGcmEncrypt(key, iv, dataToEncrypt)
        formatBuffer  == IF format = "aeia" THEN MagicAeia ELSE MagicAeiw
    IN  BCat(BCat(BCat(BCat(formatBuffer, iv), enc.cipher), enc.tag), plainTail)

(***************************************************************************)
(* scripts/verify-decrypt.js: decryptFile                                  *)
(***************************************************************************)

\* decryptFile, lines 11-55: the key length check, then the file is read as
\* IV(12) + AuthTag(16) + EncryptedData and handed to aes-256-gcm;
\* decipher.final() throws when the tag does not verify
decryptFile(encryptedData, key) ==
    IF BLen(key) # 32 THEN Throw("BadKeyLength")
    ELSE LET iv        == BSlice(encryptedData, 0, 12)
             authTag   == BSlice(encryptedData, 12, 28)
             encrypted == BSliceFrom(encryptedData, 28)
         IN  AesGcmDecrypt(key, iv, BCat(encrypted, authTag))

\* main, lines 85-93: Buffer.compare(decrypted, original) === 0
verifyMatches(encryptedData, key, original) ==
    LET d == decryptFile(encryptedData, key) IN d.ok /\ d.plain = original

(***************************************************************************)
(* lib/crypto/decrypt.ts                                                   *)
(***************************************************************************)

HexDigits == <<"0", "1", "2", "3", "4", "5", "6", "7",
               "8", "9", "a", "b", "c", "d", "e", "f">>

IsHexDigit(c) == \E i \in 1..16 : HexDigits[i] = c
HexValue(c) == (CHOOSE i \in 1..16 : HexDigits[i] = c) - 1

\* parseInt(pair, 16) stored into a Uint8Array: digits are read until the
\* first character that is no hexadecimal digit; NaN is stored as 0.
ParseIntPair(c1, c2) ==
    IF ~IsHexDigit(c1) THEN 0
    ELSE IF ~IsHexDigit(c2) THEN HexValue(c1)
    ELSE 16 * HexValue(c1) + HexValue(c2)

\* hexToBytes(hex): hex is a sequence of one-character strings
hexToBytes(hex) ==
    IF Len(hex) % 2 # 0 THEN Throw("OddHexLength")
    ELSE IF Len(hex) = 0 THEN Throw("BadHexString")
    ELSE [ok    |-> TRUE,
          bytes |-> Bytes([i \in 1..(Len(hex) \div 2) |->
                              ParseIntPair(hex[2 * i - 1], hex[2 * i])])]

\* x | 0 for a byte read that may be undefined
ToInt(x) == IF x = Undefined THEN 0 ELSE x

\* (b[4] | (b[5] << 8) | (b[6] << 16) | (b[7] << 24)) + 8: the bitwise
\* operators work on signed 32-bit integers, so a top byte >= 0x80 makes the
\* size field negative.
riffSize(b) ==
    LET b7 == ToInt(BAt(b, 7))
    IN  ToInt(BAt(b, 4)) + 256 * ToInt(BAt(b, 5)) + 65536 * ToInt(BAt(b, 6))
          + 16777216 * (IF b7 >= 128 THEN b7 - 256 ELSE b7) + 8

isRiff(b) == BAt(b, 0) = 82 /\ BAt(b, 1) = 73 /\ BAt(b, 2) = 70 /\ BAt(b, 3) = 70
isWebp(b) == isRiff(b) /\ BAt(b, 8) = 87 /\ BAt(b, 9) = 69
                       /\ BAt(b, 10) = 66 /\ BAt(b, 11) = 80
isJpeg(b) == BAt(b, 0) = 255 /\ BAt(b, 1) = 216 /\ BAt(b, 2) = 255

\* the loop looking for the first FF D9: jpegEnd = i + 2 at the first i with
\* b[i] = FF and b[i+1] = D9, else b.length.  In the run-length encoding the
\* pair can only sit on the border of two runs.
RECURSIVE JpegEndFrom(_, _)
JpegEndFrom(a, off) ==
    IF Len(a) < 2 THEN off + BLen(a)
    ELSE IF a[1].b = 255 /\ a[2].b = 217 THEN off + a[1].n + 1
    ELSE JpegEndFrom(Tail(a), off + a[1].n)

jpegEnd(b) == JpegEndFrom(b, 0)

\* lines 96-139: what decryptHeadAESGCM returns for the decrypted bytes
actualImageData(decryptedBytes) ==
    IF isRiff(decryptedBytes) /\ isWebp(decryptedBytes)
    THEN BSlice(decryptedBytes, 0,
                Min2(riffSize(decryptedBytes), BLen(decryptedBytes)))
    ELSE IF isJpeg(decryptedBytes)
    THEN BSlice(decryptedBytes, 0, jpegEnd(decryptedBytes))
    ELSE decryptedBytes

\* Variant: the key is handed to importKey whatever its length.
keyBytesUnchecked(keyHex) == hexToBytes(keyHex)

\* lines 38-43: the key check made before the primitive is called
keyBytesOf(keyHex) ==
    LET k == hexToBytes(keyHex) IN
    IF ~k.ok THEN k
    ELSE IF BLen(k.bytes) # 32 THEN Throw("BadKeyLength")
    ELSE k

\* lines 60-62: tag appended after the cipher
cipherWithTag(cipher, tag) == BCat(cipher, tag)

\* lines 141-145: every error is rethrown as Error("복호화 실패: " + message)
DecryptError(inner) == [ok |-> FALSE, error |-> "DecryptFailed", cause |-> inner]

(***************************************************************************)
(* lib/image/render.ts: the synchronous parts of renderToCanvas            *)
(***************************************************************************)

Ftyp == <<102, 116, 121, 112>>   \* "ftyp"

hasRiffHeader(fullBytes) == isRiff(fullBytes)
hasWebpHeader(fullBytes) == isWebp(fullBytes)
hasJpegHeader(fullBytes) == isJpeg(fullBytes)

\* fullBytes.slice(4, 8).every((byte, i) => byte === ftyp[i])
hasAvifHeader(fullBytes) ==
    LET s == BSlice(fullBytes, 4, 8)
    IN  \A i \in 0..(BLen(s) - 1) : BAt(s, i) = Ftyp[i + 1]

\* lines 42-61: the bytes renderToCanvas hands to the decode strategies
imageDataOf(fullBytes) ==
    IF hasWebpHeader(fullBytes) /\ riffSize(fullBytes) <= BLen(fullBytes)
    THEN BSlice(fullBytes, 0, riffSize(fullBytes))
    ELSE fullBytes

\* createImageBitmapWithFallback, lines 559-571: its own trim of the bytes
bitmapDataOf(bytes) ==
    IF isRiff(bytes) /\ isWebp(bytes) /\ riffSize(bytes) <= BLen(bytes)
    THEN BSlice(bytes, 0, riffSize(bytes))
    ELSE bytes

primaryMime(format)  == IF format = "aeia" THEN "image/avif" ELSE "image/webp"
fallbackMime(format) == IF format = "aeia" THEN "image/webp" ELSE "image/avif"

\* tryCleanDataFallback, lines 312-315: trailing null bytes removed
stripNulls(imageData) ==
    IF imageData # <<>> /\ imageData[Len(imageData)].b = 0
    THEN SubSeq(imageData, 1, Len(imageData) - 1)
    ELSE imageData

\* tryCleanDataFallback, lines 312-333
cleanDataOf(imageData, format) ==
    LET c == stripNulls(imageData)
    IN  IF /\ format = "aeiw"
           /\ isRiff(c) /\ isWebp(c)
           /\ riffSize(c) > 0 /\ riffSize(c) <= BLen(c)
        THEN BSlice(c, 0, riffSize(c))
        ELSE c

(***************************************************************************)
(* The decode attempts of one renderToCanvas call, in program order:       *)
(*   1, 2  createImageBitmapWithFallback: createImageBitmap(blob) as       *)
(*         image/avif, then as image/webp                                  *)
(*   3     tryImageObjectFallback: Image element from a data URL           *)
(*   4-6   tryBlobUrlFallback: Image element from a Blob URL, with         *)
(*         [primaryMime, fallbackMime, 'image/*']                          *)
(*   7     tryCleanDataFallback: createImageBitmap(blob) on cleaned data   *)
(*   8     tryCleanDataFallback: tryImageObjectFallback on cleaned data    *)
(***************************************************************************)

LastAttempt == 8

AttemptStrategy(att) ==
    CASE att \in {1, 2} -> "direct"
      [] att = 3        -> "dataUrl"
      [] att \in {4, 5, 6} -> "blobUrl"
      [] att = 7        -> "cleanDirect"
      [] OTHER          -> "cleanDataUrl"

\* Variant: createImageBitmapWithFallback trying the type of the container
\* format first and the other type second.
AttemptMimeByFormat(att, format) ==
    CASE att = 1 -> primaryMime(format)
      [] att = 2 -> fallbackMime(format)
      [] att = 5 -> fallbackMime(format)
      [] att = 6 -> "image/*"
      [] OTHER   -> primaryMime(format)

\* Variant: tryBlobUrlFallback with the MIME list [fallback, primary, 'image/*'].
AttemptMimeFallbackFirst(att, format) ==
    CASE att = 1 -> "image/avif"
      [] att = 2 -> "image/webp"
      [] att = 4 -> fallbackMime(format)
      [] att = 6 -> "image/*"
      [] OTHER   -> primaryMime(format)

AttemptMime(att, format) ==
    CASE att = 1 -> "image/avif"
      [] att = 2 -> "image/webp"
      [] att = 5 -> fallbackMime(format)
      [] att = 6 -> "image/*"
      [] OTHER   -> primaryMime(format)

\* createImageBitmap(blob) is awaited without a timer; the Image element
\* attempts arm a setTimeout (10 s data URL, 8 s Blob URL) before setting src.
AttemptUsesElement(att) == att \in {3, 4, 5, 6, 8}

(***************************************************************************)
(* State                                                                   *)
(***************************************************************************)

VARIABLES
    server,    \* what the network answers for each URL (fixed by Init)
    cache,     \* Cache Storage "img-encrypted-v1": URL -> stored bytes or Null
    cacheOn,   \* useCache && !isDev
    loading,   \* useState(true)
    error,     \* useState(""): <<>> is the empty string
    canvas,    \* the <canvas> element behind canvasRef and what it shows
    cur,       \* the effect run whose cleanup has not run yet (0: unmounted)
    runs       \* one record per run of the load effect

vars == <<server, cache, cacheOn, loading, error, canvas, cur, runs>>

MaxRuns == 2            \* effect runs in one behaviour
RawMax  == 36           \* raw (not encrypted) inputs have lengths 0..RawMax
Slack   == 1            \* plaintext lengths within Slack of 1 MiB
FlipBits == 2           \* bit positions 0..FlipBits-1 and 7 are flipped

RunIds == 1..MaxRuns

\* a missing Blob / byte array
Null == <<[b |-> Undefined, n |-> 0]>>

(***************************************************************************)
(* Inputs                                                                  *)
(***************************************************************************)

KeyGoodHex  == [i \in 1..64 |-> "1"]
KeyWrongHex == [i \in 1..64 |-> "2"]
KeyShortHex == [i \in 1..62 |-> "1"]
KeyOddHex   == [i \in 1..63 |-> "1"]
KeyLongHex  == [i \in 1..66 |-> "1"]
KeyEmptyHex == <<>>
KeyNotHex   == [i \in 1..64 |-> "z"]      \* parseInt gives NaN, stored as 0
KeyHexes    == {KeyGoodHex, KeyWrongHex, KeyShortHex, KeyOddHex, KeyLongHex,
                KeyEmptyHex, KeyNotHex}
KeyGood     == hexToBytes(KeyGoodHex).bytes

IvA == Rep(0, 12)
IvB == Bytes(<<1, 2, 3, 4, 5, 6, 7, 8, 9, 10, 11, 12>>)

\* little-endian bytes of a 32-bit size field
LE32(v) == <<v % 256, (v \div 256) % 256, (v \div 65536) % 256,
             (v \div 16777216) % 256>>

PlainKinds == {"zeros", "text", "webp", "webpPadded", "webpOver", "webpSigned",
               "webpNeg", "riffWave", "jpeg", "avif"}

\* a source file of length L (image kinds need L >= 16)
PlainOf(kind, L) ==
    CASE kind = "zeros" -> Rep(0, L)
      [] kind = "text"  -> Rep(65, L)
      [] kind = "webp"  ->        \* RIFF size field = L - 8, as a real file
           BCat(Bytes(<<82, 73, 70, 70>> \o LE32(L - 8) \o <<87, 69, 66, 80>>),
                Rep(86, L - 12))
      [] kind = "webpPadded" ->   \* a 28-byte WebP followed by zero padding
           BCat(Bytes(<<82, 73, 70, 70>> \o LE32(20) \o <<87, 69, 66, 80>>),
                BCat(Rep(86, 16), Rep(0, L - 28)))
      [] kind = "webpOver" ->     \* RIFF size field larger than the file
           BCat(Bytes(<<82, 73, 70, 70>> \o LE32(L + 100) \o <<87, 69, 66, 80>>),
                Rep(86, L - 12))
      [] kind = "webpSigned" ->   \* RIFF size field FF FF FF FF = 4294967295
           BCat(Bytes(<<82, 73, 70, 70, 255, 255, 255, 255, 87, 69, 66, 80>>),
                Rep(86, L - 12))
      [] kind = "webpNeg" ->      \* RIFF size field 00 00 00 80 = 2147483648
           BCat(Bytes(<<82, 73, 70, 70, 0, 0, 0, 128, 87, 69, 66, 80>>),
                Rep(86, L - 12))
      [] kind = "riffWave" ->     \* a RIFF container that is no WebP
           BCat(Bytes(<<82, 73, 70, 70>> \o LE32(L - 8) \o <<87, 65, 86, 69>>),
                Rep(86, L - 12))
      [] kind = "jpeg"  ->        \* FF D9 occurs at offset 6, data follows
           BCat(Bytes(<<255, 216, 255, 224, 0, 16, 255, 217>>), Rep(74, L - 8))
      [] OTHER          ->        \* ISOBMFF: box size, then "ftyp"
           BCat(Bytes(<<0, 0, 0, 28>> \o Ftyp), Rep(33, L - 8))

SmallLengths == 1..3
ImageLengths == {100, cipherSize, cipherSize + 100}
NearMiB      == (cipherSize - Slack)..(cipherSize + Slack)

PlainLengths(kind) ==
    IF kind \in {"zeros", "text"}
    THEN SmallLengths \cup ImageLengths \cup NearMiB
    ELSE ImageLengths

\* the server's answer for a container written by encryptFile
Built(kind, L, format, key, iv) ==
    [status |-> 200,
     body   |-> encryptFile(PlainOf(kind, L), format, key, iv),
     made   |-> "built", region |-> "none",
     plain  |-> PlainOf(kind, L), key |-> key]

FormatOf(kind) == IF kind = "avif" THEN "aeia" ELSE "aeiw"

BuiltResponses ==
    UNION {{Built(kind, L, FormatOf(kind), KeyGood, IvA) : L \in PlainLengths(kind)}
              : kind \in PlainKinds}
    \cup {Built("webp", 100, "aeia", KeyGood, IvB),
          Built("zeros", cipherSize + 100, "aeia", KeyGood, IvB)}

\* one bit of one byte inverted
FlipBit(byte, bit) ==
    LET w == 2 ^ bit
    IN  IF (byte \div w) % 2 = 1 THEN byte - w ELSE byte + w

\* the container with bit `bit` of the byte at offset pos inverted
Flip(bytes, pos, bit) ==
    BCat(BCat(BTake(bytes, pos), Rep(FlipBit(BAt(bytes, pos), bit), 1)),
         BDrop(bytes, pos + 1))

\* offsets of the first, a middle and the last byte of a region of a
\* container whose ciphertext is clen bytes long
RegionOffsets(region, clen) ==
    CASE region = "iv"     -> {4, 9, 15}
      [] region = "cipher" -> {headerSize, headerSize + (clen \div 2),
                               headerSize + clen - 1}
      [] OTHER             -> {headerSize + clen, headerSize + clen + 7,
                               headerSize + clen + tagSize - 1}

Regions == {"iv", "cipher", "tag"}
Bits == (0..(FlipBits - 1)) \cup {7}

Flipped(base, region, pos, bit) ==
    [base EXCEPT !.body = Flip(base.body, pos, bit),
                 !.made = "flipped", !.region = region]

FlipBases == {Built("text", 100, "aeiw", KeyGood, IvA),
              Built("webp", cipherSize + 100, "aeiw", KeyGood, IvB)}

FlippedResponses ==
    UNION {UNION {{Flipped(base, region, pos, bit) : bit \in Bits}
                     : pos \in RegionOffsets(region,
                                   Min2(BLen(base.plain), ENCRYPT_SIZE))}
              : <<base, region>> \in FlipBases \X Regions}

\* what becomes of the plain tail of a container
TailEdits == {"change", "append", "remove", "removeAll"}

EditedTail(tail, edit) ==
    CASE edit = "change" /\ BLen(tail) > 0 -> Flip(tail, BLen(tail) \div 2, 0)
      [] edit = "append"    -> BCat(tail, Rep(7, 3))
      [] edit = "remove"    -> BTake(tail, Max2(BLen(tail) - 1, 0))
      [] edit = "removeAll" -> BTake(tail, 0)
      [] OTHER              -> tail

\* a container of at least minFileSize bytes whose bytes after the tag
\* were edited after encryptFile had written it
TailEdited(base, edit) ==
    [base EXCEPT !.body = BCat(BTake(@, minFileSize),
                               EditedTail(BDrop(@, minFileSize), edit)),
                 !.made = "tail", !.region = edit]

TailBases == {Built("webp", cipherSize + 100, "aeiw", KeyGood, IvA),
              Built("avif", cipherSize + 100, "aeia", KeyGood, IvA),
              Built("text", cipherSize, "aeiw", KeyGood, IvA)}

TailResponses == {TailEdited(base, edit) : base \in TailBases, edit \in TailEdits}

\* arbitrary bytes: four leading bytes, then filler, cut to n bytes in all
RawMagics == {MagicAeia, MagicAeiw,
              Bytes(<<97, 101, 105, 120>>),     \* "aeix"
              Bytes(<<65, 69, 73, 87>>),        \* "AEIW"
              Bytes(<<119, 105, 101, 97>>)}     \* "wiea"

RawLengths == (0..RawMax) \cup ((minFileSize - 1)..(minFileSize + 1))

Raw(magic, n) ==
    [status |-> 200,
     body   |-> BTake(BCat(magic, Rep(5, n)), n),
     made   |-> "raw", region |-> "none",
     plain  |-> Null, key |-> Null]

RawResponses == {Raw(m, n) : m \in RawMagics, n \in RawLengths}

NotFound ==
    [status |-> 404, body |-> <<>>, made |-> "none", region |-> "none",
     plain |-> Null, key |-> Null]

ServerError == [NotFound EXCEPT !.status = 500]

(***************************************************************************)
(* components/EncryptedImage.tsx: props and the load effect                *)
(***************************************************************************)

\* contentId, as file stem and extension
Photo  == [stem |-> "photo", ext |-> "aeiw"]
Other  == [stem |-> "other", ext |-> ""]
Sample == [stem |-> "sample", ext |-> ""]
ContentIds == {Photo, Other, Sample}

\* lines 56, 117-131
isPlaceholder(contentId) == contentId.stem \in {"sample", "placeholder"}
imageUrl(contentId) ==
    IF contentId.ext \in {"aeia", "aeiw"} THEN contentId
    ELSE IF contentId.ext # "" THEN contentId
    ELSE [contentId EXCEPT !.ext = "aeiw"]

Urls == {imageUrl(c) : c \in {c \in ContentIds : ~isPlaceholder(c)}}

NotParsed == Throw("NotParsed")
NoError   == [name |-> "none", message |-> <<>>]
Err(name, message) == [name |-> name, message |-> message]

Event(e) == [e |-> e, att |-> 0, mime |-> ""]
AttemptEvent(att, format) ==
    [e |-> AttemptStrategy(att), att |-> att, mime |-> AttemptMime(att, format)]

\* a run of the effect that has not been created yet
NoRun ==
    [pc |-> "none", contentId |-> Sample, aesKey |-> <<>>,
     mounted |-> FALSE, aborted |-> FALSE, processing |-> FALSE,
     canvasEl |-> 0, blob |-> Null, parsed |-> NotParsed,
     decryptedBytes |-> Null, decryptedHead |-> Null, fullImage |-> Null,
     imageData |-> Null, att |-> 0, attData |-> Null, timeout |-> FALSE,
     caught |-> <<>>, abandoned |-> FALSE, leaked |-> FALSE,
     log |-> <<>>, onLoad |-> 0, onError |-> <<>>, sets |-> 0]

\* lines 35-37, 246-248: the effect body; loadImage waits for its timer
NewRun(contentId, aesKey) ==
    [NoRun EXCEPT !.pc = "timer", !.contentId = contentId, !.aesKey = aesKey,
                  !.mounted = TRUE, !.sets = 2]

\* lines 250-256: the effect cleanup
Cleaned(rec) ==
    [rec EXCEPT !.mounted = FALSE, !.aborted = TRUE, !.processing = FALSE,
                !.pc = IF rec.pc = "timer" THEN "cancelled" ELSE rec.pc]

Blank(el) == [el |-> el, kind |-> "blank", by |-> 0, w |-> 300, h |-> 150]

\* a paint on the element a run holds; a paint on an element that has been
\* replaced since is not visible
Paint(cv, rec, r, kind, w, h) ==
    IF rec.canvasEl = cv.el
    THEN [el |-> cv.el, kind |-> kind, by |-> r, w |-> w, h |-> h]
    ELSE cv

Logged(rec, ev) == [rec EXCEPT !.log = Append(@, ev)]

\* The result of running a piece of loadImage up to its next await:
\*   "await"      the run is suspended at rec.pc
\*   "completed"  processEncryptedImage returned (line 181 is next)
\*   "return"     loadImage returned early (lines 40, 114, 176)
\*   "throw"      an exception reached the catch of line 193
Await(rec, cv)      == [run |-> rec, canvas |-> cv, out |-> "await", err |-> NoError]
Completed(rec, cv)  == [run |-> rec, canvas |-> cv, out |-> "completed", err |-> NoError]
Return(rec, cv)     == [run |-> rec, canvas |-> cv, out |-> "return", err |-> NoError]
\* Variant: an error path that resets the canvas (canvas.width = 0) on its way out.
ThrownClearing(rec, cv, e) ==
    [run |-> rec, canvas |-> [cv EXCEPT !.kind = "blank", !.w = 0, !.h = 0],
     out |-> "throw", err |-> e]
Thrown(rec, cv, e)  == [run |-> rec, canvas |-> cv, out |-> "throw", err |-> e]

(***************************************************************************)
(* lib/image/render.ts: renderToCanvas as steps between awaits             *)
(***************************************************************************)

\* start decode attempt att (the previous ones have failed)
StartAttempt(rec, cv, att) ==
    LET data == IF att \in {1, 2} THEN bitmapDataOf(rec.imageData)
                ELSE IF att \in {7, 8}
                THEN cleanDataOf(rec.imageData, rec.parsed.format)
                ELSE rec.imageData
        started == Logged([rec EXCEPT !.att = att, !.attData = data],
                          AttemptEvent(att, rec.parsed.format))
    IN  IF AttemptUsesElement(att)
        THEN Await([started EXCEPT !.pc = "imgLoad", !.timeout = TRUE], cv)
        ELSE Await([started EXCEPT !.pc = "decode"], cv)

\* Variant: the last catch block rethrowing instead of painting the panel.
renderFailedEscalated(rec, cv, r) ==
    Thrown(Logged(rec, Event("renderFailedPanel")), cv,
           Err("Error", <<"AllDecodeStrategiesFailed">>))

\* lines 85-101: every attempt failed
renderDecryptionSuccessButRenderFailed(rec, cv, r) ==
    Completed(Logged(rec, Event("renderFailedPanel")),
              Paint(cv, rec, r, "renderFailed", 600, 500))

\* The errors renderToCanvas holds in its catch variables (primaryError,
\* imageObjectError, blobUrlError, cleanDataError) after attempt att failed;
\* an error is the set of attempts whose rejection it reports.
\*   att 2: line 599 throws one Error built from avifError and webpError
\*   att 3: the rejection of tryImageObjectFallback is imageObjectError
\*   att 4, 5: line 292 warns and goes on with the next MIME type
\*   att 6: line 296 throws a new Error that names no rejection
\*   att 7: line 341 warns and goes on; att 8: its rejection is cleanDataError
caughtErrors(caught, att) ==
    CASE att = 2 -> Append(caught, {1, 2})
      [] att = 3 -> Append(caught, {3})
      [] att = 6 -> Append(caught, {})
      [] att = 8 -> Append(caught, {8})
      [] OTHER   -> caught

\* the current attempt failed (rejected, or its timer fired)
AttemptFailed(rec, cv, r) ==
    LET failed == Logged([rec EXCEPT !.timeout = FALSE,
                                     !.caught = caughtErrors(@, rec.att)],
                         Event("attemptFailed"))
    IN  IF rec.att < LastAttempt
        THEN StartAttempt(failed, cv, rec.att + 1)
        ELSE renderDecryptionSuccessButRenderFailed(failed, cv, r)

\* lines 106-129: a bitmap was decoded; drawOk is whether getContext and
\* drawImage work.  The bitmap is closed in the finally block either way.
PaintBitmap(rec, cv, r, drawOk) ==
    LET done == Logged([rec EXCEPT !.timeout = FALSE], Event("bitmapDecoded"))
    IN  IF drawOk
        THEN Completed(Logged(done, Event("paint")),
                       Paint(cv, rec, r, "bitmap", 64, 64))
        ELSE Thrown(Logged(done, Event("paintThrew")),
                    Paint(cv, rec, r, "blank", 64, 64),
                    Err("Error", <<"Canvas 2D context">>))

\* Variant: renderToCanvas without the JPEG return of lines 26-30.
renderToCanvasNoJpegCheck(rec, cv, r) ==
    LET fullBytes == rec.fullImage
        sniffed   == Logged(rec, Event("sniff"))
    IN  IF ~hasJpegHeader(fullBytes) /\ ~hasWebpHeader(fullBytes)
                                     /\ ~hasAvifHeader(fullBytes)
        THEN Completed(Logged(sniffed, Event("textPanel")),
                       Paint(cv, rec, r, "text", 500, 400))
        ELSE StartAttempt([sniffed EXCEPT !.imageData = imageDataOf(fullBytes)],
                          cv, 1)

\* Variant: renderToCanvas without the text-mode return of lines 32-37, so
\* that a stream with no known signature goes on to the decode attempts.
renderToCanvasNoTextMode(rec, cv, r) ==
    LET fullBytes == rec.fullImage
        sniffed   == Logged(rec, Event("sniff"))
    IN  IF hasJpegHeader(fullBytes)
        THEN Completed(Logged(sniffed, Event("unsupportedPanel")),
                       Paint(cv, rec, r, "unsupported", 500, 400))
        ELSE StartAttempt([sniffed EXCEPT !.imageData = imageDataOf(fullBytes)],
                          cv, 1)

\* lines 12-66 and 559-581: sniff, trim, first decode attempt
renderToCanvas(rec, cv, r) ==
    LET fullBytes == rec.fullImage
        sniffed   == Logged(rec, Event("sniff"))
    IN  IF hasJpegHeader(fullBytes)
        THEN Completed(Logged(sniffed, Event("unsupportedPanel")),
                       Paint(cv, rec, r, "unsupported", 500, 400))
        ELSE IF ~hasWebpHeader(fullBytes) /\ ~hasAvifHeader(fullBytes)
        THEN Completed(Logged(sniffed, Event("textPanel")),
                       Paint(cv, rec, r, "text", 500, 400))
        ELSE StartAttempt([sniffed EXCEPT !.imageData = imageDataOf(fullBytes)],
                          cv, 1)

(***************************************************************************)
(* components/EncryptedImage.tsx: processEncryptedImage and                *)
(* lib/crypto/decrypt.ts: decryptHeadAESGCM, as steps between awaits       *)
(***************************************************************************)

\* lines 221-232 and decrypt.ts 37-57: parse, check the key, call importKey
AfterArrayBuffer(rec, cv) ==
    LET parsed == parseAe(rec.blob)
        p      == Logged([rec EXCEPT !.parsed = parsed], Event("parse"))
        k      == keyBytesOf(rec.aesKey)
    IN  IF ~parsed.ok THEN Thrown(p, cv, Err("Error", <<parsed.error>>))
        ELSE IF ~k.ok
        THEN Thrown(p, cv, Err("Error", <<"DecryptFailed", k.error>>))
        ELSE Await(Logged([p EXCEPT !.pc = "importKey"], Event("importKey")), cv)

\* decrypt.ts 59-71: build cipher ++ tag, call crypto.subtle.decrypt
AfterImportKey(rec, cv) ==
    Await(Logged([rec EXCEPT !.pc = "decrypt"], Event("decrypt")), cv)

\* Variant: decrypt.ts 148-237, the commented-out XOR implementation, which
\* takes the tag as _tag and never looks at it.
decryptedIgnoringTag(rec) ==
    [ok    |-> TRUE,
     plain |-> BShift(rec.parsed.cipher,
                      256 - KeyStream(keyBytesOf(rec.aesKey).bytes, rec.parsed.iv))]

\* what crypto.subtle.decrypt settles with for this run
decrypted(rec) ==
    AesGcmDecrypt(keyBytesOf(rec.aesKey).bytes, rec.parsed.iv,
                  cipherWithTag(rec.parsed.cipher, rec.parsed.tag))

\* Variant: only the decrypted head is handed on.
reassembleHeadOnly(decryptedHead, tail) == decryptedHead

\* lines 234-239: decrypted head + tail
reassemble(decryptedHead, tail) == BCat(decryptedHead, tail)

\* Variant: a rejected decrypt is submitted once more before the error is
\* thrown.
AfterDecryptRetrying(rec, cv, r) ==
    LET d     == decrypted(rec)
        calls == Len(SelectSeq(rec.log, LAMBDA ev : ev.e = "decrypt"))
    IN  IF ~d.ok /\ calls < 2
        THEN Await(Logged(Logged(rec, Event("decryptRejected")), Event("decrypt")), cv)
        ELSE IF ~d.ok
        THEN Thrown(Logged(rec, Event("decryptRejected")), cv,
                    Err("Error", <<"DecryptFailed", d.error>>))
        ELSE LET head == actualImageData(d.plain)
                 full == reassemble(head, rec.parsed.tail)
                 got  == [rec EXCEPT !.decryptedBytes = d.plain,
                                     !.decryptedHead = head,
                                     !.fullImage = full]
             IN  renderToCanvas(Logged(Logged(got, Event("decrypted")),
                                       Event("reassemble")), cv, r)

\* decrypt.ts 73-145 and lines 234-242: the decrypted bytes are sniffed and
\* cut, the head is joined with the tail, renderToCanvas is called
AfterDecrypt(rec, cv, r) ==
    LET d == decrypted(rec) IN
    IF ~d.ok
    THEN Thrown(Logged(rec, Event("decryptRejected")), cv,
                Err("Error", <<"DecryptFailed", d.error>>))
    ELSE LET head == actualImageData(d.plain)
             full == reassemble(head, rec.parsed.tail)
             got  == [rec EXCEPT !.decryptedBytes = d.plain,
                                 !.decryptedHead = head,
                                 !.fullImage = full]
         IN  renderToCanvas(Logged(Logged(got, Event("decrypted")),
                                   Event("reassemble")), cv, r)

\* lines 176-179, 215-220
processEncryptedImage(rec, cv, err) ==
    IF ~rec.mounted THEN Return(rec, cv)
    ELSE IF err # <<>> THEN Completed(rec, cv)      \* canvasRef.current is null
    ELSE Await([rec EXCEPT !.pc = "arrayBuffer", !.canvasEl = cv.el], cv)

\* lines 56-115: the placeholder branch
placeholder(rec, cv, r) ==
    Completed(Logged(rec, Event("placeholder")),
              [el |-> cv.el, kind |-> "placeholder", by |-> r,
               w |-> 500, h |-> 350])

\* lines 210-212
Finally(rec) == [rec EXCEPT !.pc = "done", !.processing = FALSE]

\* lines 194-208: the message the catch block shows
errorMessage(err) ==
    IF err.name = "AbortError" THEN <<"RequestCancelled">> ELSE err.message

\* Variant: a catch block that swallows the error.
reportsNothing(rec) == FALSE

\* Variant: a completion handler that does not look at `mounted`.
alwaysMounted(rec) == TRUE

\* line 181: if (mounted)
isMounted(rec) == rec.mounted

\* line 194: if (mounted && !abortController.signal.aborted)
mayReport(rec) == rec.mounted /\ ~rec.aborted

\* lines 181-212: what follows a step of the run in loadImage
Apply(r, o) ==
    LET rec == o.run IN
    /\ canvas' = o.canvas
    /\ CASE o.out = "await" ->
              /\ runs' = [runs EXCEPT ![r] = rec]
              /\ UNCHANGED <<loading, error>>
         [] o.out = "return" ->
              /\ runs' = [runs EXCEPT ![r] = Finally(rec)]
              /\ UNCHANGED <<loading, error>>
         [] o.out = "completed" ->
              IF isMounted(rec)
              THEN /\ loading' = FALSE
                   /\ runs' = [runs EXCEPT ![r] =
                         Finally([rec EXCEPT !.onLoad = @ + 1, !.sets = @ + 1])]
                   /\ UNCHANGED error
              ELSE /\ runs' = [runs EXCEPT ![r] = Finally(rec)]
                   /\ UNCHANGED <<loading, error>>
         [] OTHER ->
              IF mayReport(rec)
              THEN /\ error' = errorMessage(o.err)
                   /\ loading' = FALSE
                   /\ runs' = [runs EXCEPT ![r] =
                         Finally([rec EXCEPT
                            !.sets = @ + 2,
                            !.onError = IF o.err.name = "AbortError" THEN @
                                        ELSE Append(@, errorMessage(o.err))])]
              ELSE /\ runs' = [runs EXCEPT ![r] = Finally(rec)]
                   /\ UNCHANGED <<loading, error>>
    /\ UNCHANGED <<server, cacheOn, cur>>

(***************************************************************************)
(* Actions: loadImage, one action per await that settles                   *)
(***************************************************************************)

UrlOf(r) == imageUrl(runs[r].contentId)

\* setTimeout(loadImage, 100) fires: lines 39-53, then the placeholder
\* branch or the first await (cache lookup or fetch)
TimerFire(r) ==
    /\ runs[r].pc = "timer"
    /\ UNCHANGED <<server, cacheOn, cur, cache>>
    /\ IF error # <<>>                       \* if (!canvasRef.current) return
       THEN /\ runs' = [runs EXCEPT ![r].pc = "done"]
            /\ UNCHANGED <<loading, error, canvas>>
       ELSE LET rec == [runs[r] EXCEPT
                           !.aborted = IF runs[r].processing THEN FALSE ELSE @,
                           !.processing = TRUE, !.sets = @ + 2]
            IN  IF isPlaceholder(rec.contentId)
                THEN LET o == placeholder(rec, canvas, r) IN
                     /\ canvas' = o.canvas
                     /\ loading' = FALSE
                     /\ error' = <<>>
                     /\ runs' = [runs EXCEPT ![r] =
                           Finally([o.run EXCEPT !.onLoad = @ + 1, !.sets = @ + 1])]
                ELSE /\ loading' = TRUE
                     /\ error' = <<>>
                     /\ runs' = [runs EXCEPT ![r] =
                           [rec EXCEPT !.pc = IF cacheOn THEN "cacheGet" ELSE "fetch"]]
                     /\ UNCHANGED canvas

\* Variant: get without its try/catch, so that a failing caches.open,
\* match or blob() rejects the promise loadImage awaits.
cacheGetThrowing(stored, failed) == [ok |-> ~failed, blob |-> stored]

\* store.ts 45-63, get: the stored bytes, or null when the URL is absent or
\* when opening the cache, match or blob() fails (the catch returns null)
cacheGet(stored, failed) ==
    [ok |-> TRUE, blob |-> IF failed THEN Null ELSE stored]

\* Variant: put storing under a key that is not the URL it was given.
cachePutOtherKey(c, url, blob, failed) ==
    [ok |-> TRUE,
     cache |-> IF failed THEN c
               ELSE [c EXCEPT ![CHOOSE u \in DOMAIN c : u # url] = blob]]

\* store.ts 22-43, put: a failure is logged and swallowed, nothing is stored
cachePut(c, url, blob, failed) ==
    [ok |-> TRUE, cache |-> IF failed THEN c ELSE [c EXCEPT ![url] = blob]]

\* await getEncryptedImage(imageUrl) settles: lines 144-154
CacheGetSettle(r) ==
    /\ runs[r].pc = "cacheGet"
    /\ UNCHANGED cache
    /\ \E failed \in BOOLEAN :
          LET g   == cacheGet(cache[UrlOf(r)], failed)
              rec == IF failed THEN Logged(runs[r], Event("cacheGetFailed"))
                     ELSE runs[r]
          IN  IF ~g.ok
              THEN Apply(r, Thrown(rec, canvas, Err("Error", <<"CacheError">>)))
              ELSE IF g.blob # Null
              THEN Apply(r, processEncryptedImage(
                              Logged([rec EXCEPT !.blob = g.blob], Event("cacheHit")),
                              canvas, error))
              ELSE Apply(r, Await(Logged([rec EXCEPT !.pc = "fetch"],
                                         Event("fetch")), canvas))

\* Variant: loadImage not looking at response.ok.
responseAlwaysOk(status) == TRUE

\* line 159: response.ok
responseOk(status) == status \in 200..299

\* line 161: `${response.status} ${response.statusText}`
statusLine(status) ==
    CASE status = 404 -> "404 Not Found"
      [] status = 500 -> "500 Internal Server Error"
      [] OTHER        -> "200 OK"

\* await fetch(imageUrl, {signal}) settles: lines 155-163
FetchSettle(r) ==
    /\ runs[r].pc = "fetch"
    /\ UNCHANGED cache
    /\ IF runs[r].aborted
       THEN Apply(r, Thrown(runs[r], canvas, Err("AbortError", <<"aborted">>)))
       ELSE \E reached \in BOOLEAN :
              IF ~reached
              THEN Apply(r, Thrown(runs[r], canvas,
                                   Err("TypeError", <<"Failed to fetch">>)))
              ELSE LET rec == Logged(runs[r], Event("response")) IN
                   IF ~responseOk(server[UrlOf(r)].status)
                   THEN Apply(r, Thrown(rec, canvas,
                                Err("Error", <<"LoadFailed",
                                               statusLine(server[UrlOf(r)].status)>>)))
                   ELSE Apply(r, Await([rec EXCEPT !.pc = "respBlob"], canvas))

\* await response.blob() settles: lines 165-176
RespBlobSettle(r) ==
    /\ runs[r].pc = "respBlob"
    /\ UNCHANGED cache
    /\ IF runs[r].aborted
       THEN Apply(r, Thrown(runs[r], canvas, Err("AbortError", <<"aborted">>)))
       ELSE LET rec == [runs[r] EXCEPT !.blob = server[UrlOf(r)].body] IN
            IF cacheOn
            THEN Apply(r, Await([rec EXCEPT !.pc = "cachePut"], canvas))
            ELSE Apply(r, processEncryptedImage(rec, canvas, error))

\* await putEncryptedImage(imageUrl, blob) settles: lines 168-176
CachePutSettle(r) ==
    /\ runs[r].pc = "cachePut"
    /\ \E failed \in BOOLEAN :
          LET p   == cachePut(cache, UrlOf(r), runs[r].blob, failed)
              rec == IF failed THEN Logged(runs[r], Event("cachePutFailed"))
                     ELSE runs[r]
          IN  /\ cache' = p.cache
              /\ IF ~p.ok
                 THEN Apply(r, Thrown(rec, canvas, Err("Error", <<"CacheError">>)))
                 ELSE Apply(r, processEncryptedImage(
                                 Logged(rec, Event("cachePut")), canvas, error))

\* await blob.arrayBuffer() settles
ArrayBufferSettle(r) ==
    /\ runs[r].pc = "arrayBuffer"
    /\ UNCHANGED cache
    /\ Apply(r, AfterArrayBuffer(runs[r], canvas))

\* await crypto.subtle.importKey settles
ImportKeySettle(r) ==
    /\ runs[r].pc = "importKey"
    /\ UNCHANGED cache
    /\ Apply(r, AfterImportKey(runs[r], canvas))

\* await crypto.subtle.decrypt settles
DecryptSettle(r) ==
    /\ runs[r].pc = "decrypt"
    /\ UNCHANGED cache
    /\ Apply(r, AfterDecrypt(runs[r], canvas, r))

\* await createImageBitmap(blob) settles (attempts 1, 2, 7)
DecodeSettle(r) ==
    /\ runs[r].pc = "decode"
    /\ UNCHANGED cache
    /\ \E ok \in BOOLEAN, drawOk \in BOOLEAN :
          IF ok THEN Apply(r, PaintBitmap(runs[r], canvas, r, drawOk))
          ELSE drawOk /\ Apply(r, AttemptFailed(runs[r], canvas, r))

\* imageObj.onload: the timer is cleared; a zero-sized image is rejected,
\* otherwise createImageBitmap(canvas2d | imageObj) is awaited
ImgOnload(r) ==
    /\ runs[r].pc = "imgLoad"
    /\ UNCHANGED cache
    /\ \E zeroSize \in BOOLEAN :
          IF zeroSize THEN Apply(r, AttemptFailed(runs[r], canvas, r))
          ELSE Apply(r, Await([runs[r] EXCEPT !.pc = "snapshot",
                                              !.timeout = FALSE], canvas))

\* imageObj.onerror
ImgOnerror(r) ==
    /\ runs[r].pc = "imgLoad"
    /\ UNCHANGED cache
    /\ Apply(r, AttemptFailed(runs[r], canvas, r))

\* lines 221-223, 271-273: the timeout handler only rejects the promise; the
\* Image element keeps its src and its handlers, so its load goes on.
\* rec.abandoned: some element whose attempt has timed out is still loading.
\* the attempt's setTimeout fires before the element has loaded
ImgTimeout(r) ==
    /\ runs[r].pc = "imgLoad"
    /\ runs[r].timeout
    /\ UNCHANGED cache
    /\ Apply(r, AttemptFailed([runs[r] EXCEPT !.abandoned = TRUE], canvas, r))

\* lines 225-238, 275-283: onload of an element whose attempt has timed out
\* still calls createImageBitmap(...).then(resolve); resolve finds the
\* promise rejected, and the bitmap stays with nobody to close it.
\* rec.leaked: some ImageBitmap was created that nothing will close.
lateBitmap(leaked, loaded) == leaked \/ loaded

\* the last element whose attempt has timed out ends its load: onload or
\* onerror runs, and its resolve or reject finds the promise settled
ImgLateSettle(r) ==
    /\ runs[r].abandoned
    /\ \E loaded \in BOOLEAN :
          runs' = [runs EXCEPT ![r].abandoned = FALSE,
                               ![r].leaked = lateBitmap(@, loaded)]
    /\ UNCHANGED <<server, cache, cacheOn, loading, error, canvas, cur>>

\* createImageBitmap(canvas2d | imageObj) settles
SnapshotSettle(r) ==
    /\ runs[r].pc = "snapshot"
    /\ UNCHANGED cache
    /\ \E ok \in BOOLEAN, drawOk \in BOOLEAN :
          IF ok THEN Apply(r, PaintBitmap(runs[r], canvas, r, drawOk))
          ELSE drawOk /\ Apply(r, AttemptFailed(runs[r], canvas, r))

(***************************************************************************)
(* Actions: the effect (lines 34-37, 245-257)                              *)
(***************************************************************************)

\* a dependency of the effect changed: the cleanup of the current run and
\* the body of the next run happen in the same commit
Rerender(contentId, aesKey) ==
    /\ cur # 0
    /\ cur < MaxRuns
    /\ runs' = [runs EXCEPT ![cur] = Cleaned(@),
                            ![cur + 1] = NewRun(contentId, aesKey)]
    /\ loading' = TRUE
    /\ error' = <<>>
    /\ canvas' = IF error # <<>> THEN Blank(cur + 1) ELSE canvas
    /\ cur' = cur + 1
    /\ UNCHANGED <<server, cache, cacheOn>>

\* the component unmounts: the cleanup of the current run
Unmount ==
    /\ cur # 0
    /\ runs' = [runs EXCEPT ![cur] = Cleaned(@)]
    /\ cur' = 0
    /\ UNCHANGED <<server, cache, cacheOn, loading, error, canvas>>

(***************************************************************************)
(* app/page.tsx: Home, the parent that passes onLoad and onError           *)
(***************************************************************************)

\* lines 45-46 after handleImageSelect: loadingState and errorMessage
HomeIdle == [loadingState |-> "idle", errorMessage |-> <<>>]

\* lines 176-192
handleImageLoad(home) ==
    IF home.loadingState = "success" THEN home
    ELSE [loadingState |-> "success", errorMessage |-> <<>>]

\* lines 194-197
handleImageError(home, e) == [loadingState |-> "error", errorMessage |-> e]

\* the state of Home once the callbacks of runs 1..r have been handled,
\* the image having been selected before run 1
RECURSIVE HomeAfter(_)
HomeAfter(r) ==
    IF r = 0 THEN HomeIdle
    ELSE LET home == HomeAfter(r - 1) IN
         IF runs[r].onLoad > 0 THEN handleImageLoad(home)
         ELSE IF runs[r].onError # <<>>
              THEN handleImageError(home, runs[r].onError[1])
              ELSE home

\* A callback of the current run changed the state of Home: Home renders
\* again, handleImageLoad and handleImageError (lines 176, 194) are new
\* function objects, and the effect of EncryptedImage, which lists onLoad
\* and onError among its dependencies (line 257), is cleaned up and run
\* again with the same contentId and key.
HomeRerender ==
    /\ cur # 0
    /\ runs[cur].pc = "done"
    /\ HomeAfter(cur) # HomeAfter(cur - 1)
    /\ Rerender(runs[cur].contentId, runs[cur].aesKey)

LoadStep(r) ==
    \/ TimerFire(r)
    \/ CacheGetSettle(r)
    \/ FetchSettle(r)
    \/ RespBlobSettle(r)
    \/ CachePutSettle(r)
    \/ ArrayBufferSettle(r)
    \/ ImportKeySettle(r)
    \/ DecryptSettle(r)

RenderStep(r) ==
    \/ DecodeSettle(r)
    \/ ImgOnload(r)
    \/ ImgOnerror(r)
    \/ ImgTimeout(r)
    \/ SnapshotSettle(r)

(***************************************************************************)
(* Specifications                                                          *)
(***************************************************************************)

Mounted(contentId, aesKey) ==
    /\ cur = 1
    /\ runs = [r \in RunIds |-> IF r = 1 THEN NewRun(contentId, aesKey) ELSE NoRun]
    /\ loading = TRUE
    /\ error = <<>>
    /\ canvas = Blank(1)

SmallResponses ==
    {Built("webp", 100, "aeiw", KeyGood, IvA),
     Raw(Bytes(<<97, 101, 105, 120>>), 40),
     NotFound}

\* The component: a few containers, every interleaving of the runs of the
\* effect with re-renders and unmount.
Init ==
    /\ server \in [Urls -> SmallResponses]
    /\ server[imageUrl(Other)] = Built("webp", 100, "aeiw", KeyGood, IvA)
    /\ cacheOn \in BOOLEAN
    /\ cache = [u \in Urls |-> Null]
    /\ Mounted(Photo, KeyGoodHex)

Props == {<<Other, KeyGoodHex>>, <<Photo, KeyWrongHex>>, <<Sample, KeyGoodHex>>}

Next ==
    \/ \E r \in RunIds : LoadStep(r)
    \/ \E r \in RunIds : RenderStep(r)
    \/ \E p \in Props : Rerender(p[1], p[2])
    \/ Unmount

Spec == Init /\ [][Next]_vars

\* The component when every awaited call settles: the timer fires unless
\* the cleanup clears it, and each promise loadImage, processEncryptedImage
\* and renderToCanvas wait for is resolved or rejected in the end.  Props
\* changes and the unmount stay at the parent's discretion.  The cache is
\* on, the parent moves from photo to the other image, and one of the two
\* is an image while the other is a file that is refused early.
InitSettling ==
    /\ server \in [Urls -> SmallResponses]
    /\ Cardinality({u \in Urls : server[u].made = "built"}) = 1
    /\ cacheOn = TRUE
    /\ cache = [u \in Urls |-> Null]
    /\ Mounted(Photo, KeyGoodHex)

\* run r waits for its timer or for a promise: one of LoadStep(r) and
\* RenderStep(r) can be taken
Pending(r) == runs[r].pc \notin {"none", "done", "cancelled"}

\* a step of run r that is not its cleanup
Settles(r) == runs'[r] # runs[r] /\ runs'[r].mounted = runs[r].mounted

\* weak fairness of the steps of run r, with their enabling condition
\* written out
SettlesInTheEnd(r) == []<>(~Pending(r)) \/ []<><<Settles(r)>>_vars

NextSettling ==
    \/ \E r \in RunIds : LoadStep(r)
    \/ \E r \in RunIds : RenderStep(r)
    \/ Rerender(Other, KeyGoodHex)
    \/ Unmount

SpecSettling ==
    /\ InitSettling /\ [][NextSettling]_vars
    /\ \A r \in RunIds : SettlesInTheEnd(r)

\* One load of one container, for every container and key of the input
\* sets: the codec, the decryptor, the reassembly and the decode chain.
WideResponses ==
    BuiltResponses \cup FlippedResponses \cup TailResponses \cup RawResponses

InitCodec ==
    /\ server \in [Urls -> WideResponses \cup {NotFound, ServerError}]
    /\ server[imageUrl(Other)] = NotFound
    /\ cacheOn \in BOOLEAN
    /\ cache = [u \in Urls |-> Null]
    /\ \E k \in KeyHexes :
          /\ k # KeyGoodHex => server[imageUrl(Photo)] \in SmallResponses
          /\ Mounted(Photo, k)

\* The loads of elements abandoned by a timeout touch nothing but the
\* run's own abandoned and leaked flags; they are followed here.
\* The component under Home after one selection: the props change no more,
\* the component stays mounted, and Home renders again when a callback
\* changed its state.
NextPage ==
    \/ \E r \in RunIds : LoadStep(r)
    \/ \E r \in RunIds : RenderStep(r)
    \/ HomeRerender

SpecPage == Init /\ [][NextPage]_vars

NextCodec ==
    \/ LoadStep(1)
    \/ RenderStep(1)
    \/ ImgLateSettle(1)

SpecCodec == InitCodec /\ [][NextCodec]_vars

\* The same with the scheduling the platform guarantees for timers: a
\* setTimeout that has been armed and not cleared fires.  Nothing makes an
\* image decoder settle, so DecodeSettle, ImgOnload, ImgOnerror and
\* SnapshotSettle carry no fairness.
FairCodec ==
    /\ SpecCodec
    /\ WF_vars(TimerFire(1))
    /\ WF_vars(ImgTimeout(1))

(***************************************************************************)
(* Properties                                                              *)
(***************************************************************************)

\* run r has logged event e
Has(r, e) == \E i \in DOMAIN runs[r].log : runs[r].log[i].e = e

\* run r exists and loads a file from the network or the cache
Loads(r) == runs[r].pc # "none" /\ ~isPlaceholder(runs[r].contentId)

\* what the server holds for the file run r loads
Served(r) == server[UrlOf(r)]

\* run r was given the key its file was encrypted with
RightKey(r) ==
    /\ keyBytesOf(runs[r].aesKey).ok
    /\ keyBytesOf(runs[r].aesKey).bytes = Served(r).key

\* crypto.subtle.decrypt was called by run r and has settled
DecryptSettled(r) == Has(r, "decrypt") /\ runs[r].pc # "decrypt"

BadMagicBytes(bytes) == BLen(bytes) < 4 \/ BTake(bytes, 4) \notin {MagicAeia, MagicAeiw}

(* C1: round trip.  For every plaintext P, key and IV, the container written *)
(* by encryptFile, once parsed, decrypted with the same key and reassembled  *)
(* (head ++ tail), gives a byte stream equal to P.                           *)
RoundTrip ==
    \A r \in RunIds :
        (Loads(r) /\ Served(r).made = "built" /\ RightKey(r) /\ Has(r, "reassemble"))
            => runs[r].fullImage = Served(r).plain

(* C2: tamper detection.  With the right key, a container with one bit of   *)
(* its IV, ciphertext or tag region inverted never yields a plaintext: the  *)
(* decrypt call rejects with an authentication failure, and nothing is      *)
(* reassembled, sniffed or painted for it.                                  *)
TamperDetected ==
    \A r \in RunIds :
        (Loads(r) /\ Served(r).made = "flipped" /\ RightKey(r)) =>
            /\ runs[r].decryptedBytes = Null
            /\ runs[r].decryptedHead = Null
            /\ runs[r].fullImage = Null
            /\ \A e \in {"decrypted", "reassemble", "sniff", "unsupportedPanel",
                         "textPanel", "direct", "dataUrl", "blobUrl",
                         "cleanDirect", "cleanDataUrl", "bitmapDecoded",
                         "paint", "paintThrew", "renderFailedPanel"} : ~Has(r, e)
            /\ canvas.by # r
            /\ DecryptSettled(r) =>
                  /\ Has(r, "decryptRejected")
                  /\ runs[r].pc = "done"
                  /\ runs[r].onLoad = 0
                  /\ runs[r].mounted =>
                        runs[r].onError = << <<"DecryptFailed", "OperationError">> >>

\* a tampered container went through the decrypt call (one state per region)
TamperDetectedWitness ==
    \E r \in RunIds :
        /\ Loads(r) /\ Served(r).made = "flipped" /\ Served(r).region = "iv"
        /\ RightKey(r) /\ DecryptSettled(r)
        /\ BLen(runs[r].parsed.tail) > 0

(* C3: magic validation.  For every input whose first four bytes are not    *)
(* exactly "aeia" or "aeiw", parseAe throws a malformed-container error and *)
(* the run calls neither importKey nor decrypt.                             *)
MagicValidated ==
    \A r \in RunIds :
        (Has(r, "parse") /\ BadMagicBytes(runs[r].blob)) =>
            /\ ~runs[r].parsed.ok
            /\ runs[r].parsed.error \in {"MagicHeaderMissing", "BadMagic"}
            /\ ~Has(r, "importKey") /\ ~Has(r, "decrypt")
            /\ runs[r].decryptedBytes = Null
            /\ runs[r].pc = "done"

\* an input long enough to be split, with the magic in upper case, was parsed
MagicValidatedWitness ==
    \E r \in RunIds :
        /\ Has(r, "parse")
        /\ BLen(runs[r].blob) > 32
        /\ BTake(runs[r].blob, 4) = Bytes(<<65, 69, 73, 87>>)
        /\ runs[r].pc = "done"

\* the cleanup of run r's effect has run (new contentId or key, or unmount)
Superseded(r) == runs[r].pc # "none" /\ ~runs[r].mounted

(* C4: supersession.  Once the cleanup of a run's effect has run, that run  *)
(* never calls onLoad or onError and never sets the loading or error state, *)
(* whatever its remaining steps do.                                         *)
SupersededSilent ==
    [][\A r \in RunIds :
          Superseded(r) =>
              /\ runs'[r].onLoad = runs[r].onLoad
              /\ runs'[r].onError = runs[r].onError
              /\ runs'[r].sets = runs[r].sets
              /\ runs'[r] # runs[r] => (loading' = loading /\ error' = error)]_vars

\* a superseded run went on to decrypt and paint, and the run that replaced
\* it completed with onLoad
SupersededSilentWitness ==
    /\ Superseded(1) /\ runs[1].pc = "done" /\ Has(1, "bitmapDecoded")
    /\ runs[1].onLoad = 0 /\ runs[1].onError = <<>>
    /\ runs[2].pc = "done" /\ runs[2].onLoad = 1

\* the decode attempts run r has started, in order
Attempts(r) == SelectSeq(runs[r].log, LAMBDA ev : ev.att > 0)

\* the fixed order of render.ts for a container of the given format
FixedOrder(format) ==
    LET primary  == IF format = "aeia" THEN "image/avif" ELSE "image/webp"
        fallback == IF format = "aeia" THEN "image/webp" ELSE "image/avif"
    IN  << [e |-> "direct",       mime |-> "image/avif"],
           [e |-> "direct",       mime |-> "image/webp"],
           [e |-> "dataUrl",      mime |-> primary],
           [e |-> "blobUrl",      mime |-> primary],
           [e |-> "blobUrl",      mime |-> fallback],
           [e |-> "blobUrl",      mime |-> "image/*"],
           [e |-> "cleanDirect",  mime |-> primary],
           [e |-> "cleanDataUrl", mime |-> primary] >>

(* C5: fallback order.  Within one renderToCanvas call the decode attempts  *)
(* are started in the fixed order (direct createImageBitmap, data-URL Image *)
(* element, Blob-URL Image element with the primary, the fallback and the   *)
(* wildcard MIME type, repaired data directly and through an Image          *)
(* element), each only after the previous one failed, none after a success, *)
(* and the diagnostic panel only after all of them failed.                  *)
FallbackOrder ==
    \A r \in RunIds :
        LET log == runs[r].log
            a   == Attempts(r)
        IN  /\ Len(a) <= Len(FixedOrder("aeiw"))
            /\ \A i \in DOMAIN a :
                  /\ a[i].e = FixedOrder(runs[r].parsed.format)[i].e
                  /\ a[i].mime = FixedOrder(runs[r].parsed.format)[i].mime
            /\ \A i \in DOMAIN log :
                  /\ (log[i].att > 0 /\ log[i - 1].e # "sniff")
                        => log[i - 1].e = "attemptFailed"
                  /\ log[i].e = "bitmapDecoded"
                        => \A j \in DOMAIN log : j > i => log[j].att = 0
                  /\ log[i].e = "renderFailedPanel"
                        => /\ Len(a) = Len(FixedOrder("aeiw"))
                           /\ log[i - 1].e = "attemptFailed"
                           /\ ~Has(r, "bitmapDecoded")

\* every attempt was made and failed, the diagnostic panel was painted
FallbackOrderWitness ==
    \E r \in RunIds : Has(r, "renderFailedPanel") /\ runs[r].parsed.format = "aeia"

\* run r is inside a decode attempt of renderToCanvas
InAttempt(r) == runs[r].pc \in {"decode", "imgLoad", "snapshot"}

\* some decoder has decoded run r's stream (a bitmap, or a loaded Image)
Decoded(r) == Has(r, "bitmapDecoded") \/ runs[r].pc = "snapshot"

(* C6: fallback exhaustion terminates.  For a stream no decoder decodes, a  *)
(* renderToCanvas call that has started a decode attempt always ends in the *)
(* all-strategies-failed outcome, even when a decoder call never settles,   *)
(* because every attempt is bounded by a timer of its own.                  *)
FallbackTerminates ==
    \A r \in RunIds :
        InAttempt(r) ~> (Has(r, "renderFailedPanel") \/ Decoded(r))

\* parseAe has accepted the bytes run r loaded
Accepted(r) == Has(r, "parse") /\ runs[r].parsed.ok

(* C7: layout.  For every input parseAe accepts, the fields partition the   *)
(* input: iv is bytes [4,16), the tag is the 16 bytes right after the       *)
(* ciphertext, the tail is everything after the tag, the lengths add up to  *)
(* the input length and magic ++ iv ++ cipher ++ tag ++ tail is the input.  *)
LayoutPartition ==
    \A r \in RunIds :
        Accepted(r) =>
            LET b == runs[r].blob
                p == runs[r].parsed
                c == BLen(p.cipher)
            IN  /\ p.iv = BSlice(b, 4, 16) /\ BLen(p.iv) = 12
                /\ p.cipher = BSlice(b, 16, 16 + c)
                /\ p.tag = BSlice(b, 16 + c, 32 + c) /\ BLen(p.tag) = 16
                /\ p.tail = BSliceFrom(b, 32 + c)
                /\ 4 + 12 + c + 16 + BLen(p.tail) = BLen(b)
                /\ (p.format = "aeia") = (BTake(b, 4) = MagicAeia)
                /\ (p.format = "aeiw") = (BTake(b, 4) = MagicAeiw)
                /\ BCat(BCat(BCat(BCat(BTake(b, 4), p.iv), p.cipher), p.tag),
                        p.tail) = b

\* a short input (adaptive split) was accepted
LayoutPartitionWitness ==
    \E r \in RunIds :
        Accepted(r) /\ BLen(runs[r].blob) = 35 /\ BLen(runs[r].parsed.cipher) = 3

(* C8: parseAe throws exactly when the input is shorter than 4 bytes, or    *)
(* its magic is not "aeia"/"aeiw", or it is shorter than 32 bytes; every    *)
(* input with a valid magic and at least 32 bytes is accepted.              *)
RejectsExactlyMalformed ==
    \A r \in RunIds :
        Has(r, "parse") =>
            (~runs[r].parsed.ok) =
                (BadMagicBytes(runs[r].blob) \/ BLen(runs[r].blob) < 32)

\* the split parseAe makes of the bytes run r loaded
SplitAsStated(r) ==
    LET b == runs[r].blob
        p == runs[r].parsed
    IN  /\ BLen(p.cipher) = Min2(1048576, BLen(b) - 32)
        /\ BLen(b) >= 32 + 1048576 => BLen(p.cipher) = 1048576
        /\ BLen(b) < 32 + 1048576 =>
              /\ p.cipher = BSlice(b, 16, BLen(b) - 16)
              /\ p.tail = <<>>

\* the container of a 100-byte plaintext: 132 bytes, ciphertext of 100
\* bytes, and decryptHeadAESGCM returns the plaintext
HundredBytes(r) ==
    (Loads(r) /\ Served(r).made = "built" /\ BLen(Served(r).plain) = 100) =>
        /\ BLen(runs[r].blob) = 132
        /\ BLen(runs[r].parsed.cipher) = 100
        /\ (RightKey(r) /\ DecryptSettled(r)) =>
              /\ Has(r, "decrypted")
              /\ runs[r].decryptedHead = Served(r).plain

(* C9: adaptive split.  The ciphertext length parseAe takes is              *)
(* min(1048576, len - 32): inputs of at least 32 + 1 MiB bytes use the      *)
(* fixed split, shorter ones take everything between the IV and the last    *)
(* 16 bytes with an empty tail, and the 132-byte container of a 100-byte    *)
(* plaintext parses with a 100-byte ciphertext and decrypts to the          *)
(* plaintext.                                                               *)
AdaptiveSplit ==
    \A r \in RunIds : Accepted(r) => (SplitAsStated(r) /\ HundredBytes(r))

(* C10: every successful decryptHeadAESGCM call returns a head as long as   *)
(* the ciphertext it was given, so the reassembled stream has length        *)
(* len(ciphertext) + len(tail).                                             *)
HeadLengthKept ==
    \A r \in RunIds :
        Has(r, "decrypted") =>
            /\ BLen(runs[r].decryptedHead) = BLen(runs[r].parsed.cipher)
            /\ BLen(runs[r].fullImage)
                  = BLen(runs[r].parsed.cipher) + BLen(runs[r].parsed.tail)

(* C11: a key that does not decode to exactly 32 bytes (a hex string of    *)
(* length other than 64: each pair of characters gives one byte) is         *)
(* rejected with a decryption failure, and neither importKey nor decrypt is *)
(* called in that run.                                                      *)
BadKeyRejected ==
    \A r \in RunIds :
        (Accepted(r) /\ Len(runs[r].aesKey) # 64) =>
            /\ ~Has(r, "importKey") /\ ~Has(r, "decrypt")
            /\ runs[r].decryptedBytes = Null
            /\ runs[r].pc = "done"
            /\ runs[r].onLoad = 0
            /\ runs[r].mounted =>
                  /\ Len(runs[r].onError) = 1
                  /\ runs[r].onError[1][1] = "DecryptFailed"

\* a well-formed container was parsed by a run holding a 31-byte key
BadKeyRejectedWitness ==
    \E r \in RunIds :
        /\ Accepted(r) /\ runs[r].aesKey = KeyShortHex
        /\ runs[r].onError = << <<"DecryptFailed", "BadKeyLength">> >>

\* how many times run r has logged event e
Count(r, e) == Len(SelectSeq(runs[r].log, LAMBDA ev : ev.e = e))

(* C12: no retries.  Within one run importKey and decrypt are each called   *)
(* at most once, and when the decrypt call is rejected the run does nothing *)
(* more: the rejection is the last thing it did and the run has ended.      *)
NoRetry ==
    \A r \in RunIds :
        /\ Count(r, "importKey") <= 1
        /\ Count(r, "decrypt") <= 1
        /\ Count(r, "decryptRejected") <= 1
        /\ Has(r, "decryptRejected") =>
              /\ runs[r].log[Len(runs[r].log)].e = "decryptRejected"
              /\ runs[r].pc = "done"
              /\ runs[r].decryptedBytes = Null

\* a decrypt call was rejected because the key was the wrong one
NoRetryWitness ==
    \E r \in RunIds :
        /\ Has(r, "decryptRejected") /\ runs[r].aesKey = KeyWrongHex
        /\ runs[r].onError = << <<"DecryptFailed", "OperationError">> >>

\* parseAe threw, the key was refused or the decrypt call was rejected in run r
PipelineFailed(r) ==
    \/ Has(r, "parse") /\ ~runs[r].parsed.ok
    \/ Accepted(r) /\ ~keyBytesOf(runs[r].aesKey).ok
    \/ Has(r, "decryptRejected")

\* the events of renderToCanvas
RenderEvents ==
    {"sniff", "unsupportedPanel", "textPanel", "direct", "dataUrl", "blobUrl",
     "cleanDirect", "cleanDataUrl", "attemptFailed", "bitmapDecoded", "paint",
     "paintThrew", "renderFailedPanel"}

(* C13: no partial paint.  When parsing or decryption fails, the run ends   *)
(* without calling renderToCanvas, the canvas is as it was before the run   *)
(* (not painted by it; untouched when it is the only run), and the failure  *)
(* is reported once through onError.                                        *)
NoPartialPaint ==
    \A r \in RunIds :
        PipelineFailed(r) =>
            /\ \A e \in RenderEvents : ~Has(r, e)
            /\ runs[r].fullImage = Null
            /\ canvas.by # r
            /\ (\A q \in RunIds \ {r} : runs[q].pc = "none") => canvas = Blank(canvas.el)
            /\ runs[r].pc = "done"
            /\ runs[r].onLoad = 0
            /\ runs[r].mounted =>
                  /\ Len(runs[r].onError) = 1
                  /\ error = runs[r].onError[1]
                  /\ ~loading

\* parseAe refused a 32-byte input and the run reported it
NoPartialPaintWitness ==
    \E r \in RunIds :
        /\ Has(r, "parse") /\ BLen(runs[r].blob) = 32
        /\ runs[r].onError = << <<"FileTooSmall">> >>
        /\ canvas = Blank(1)

\* min(declaredSize + 8, length), declaredSize the unsigned little-endian
\* value at offset 4.  The streams of the model are shorter than 2^30 bytes,
\* so a top byte of 64 or more already puts declaredSize + 8 past the end.
TrimmedLength(b) ==
    IF BAt(b, 7) >= 64 THEN BLen(b)
    ELSE Min2(BAt(b, 4) + 256 * BAt(b, 5) + 65536 * BAt(b, 6)
                + 16777216 * BAt(b, 7) + 8, BLen(b))

(* C14: RIFF trim.  For a stream with the RIFF/WEBP signature the bytes     *)
(* kept for decoding are the first min(declaredSize + 8, length) bytes,     *)
(* declaredSize being the unsigned 32-bit size field; when declaredSize + 8 *)
(* exceeds the length the whole stream is kept.  Both places that trim are  *)
(* covered: decryptHeadAESGCM and renderToCanvas.                           *)
RiffTrim ==
    \A r \in RunIds :
        /\ (Has(r, "decrypted") /\ isWebp(runs[r].decryptedBytes)) =>
              runs[r].decryptedHead =
                  BTake(runs[r].decryptedBytes, TrimmedLength(runs[r].decryptedBytes))
        /\ (Has(r, "sniff") /\ hasWebpHeader(runs[r].fullImage)) =>
              runs[r].imageData =
                  BTake(runs[r].fullImage, TrimmedLength(runs[r].fullImage))

\* the i-th decode attempt of run r is a direct createImageBitmap with mime
DirectAs(r, i, mime) ==
    Len(Attempts(r)) >= i =>
        (Attempts(r)[i].e = "direct" /\ Attempts(r)[i].mime = mime)

\* the second attempt of run r was started after the first one failed
SecondAfterFailure(r) ==
    Len(Attempts(r)) >= 2 =>
        \E i \in DOMAIN runs[r].log :
            /\ runs[r].log[i].att = 1
            /\ runs[r].log[i + 1].e = "attemptFailed"
            /\ runs[r].log[i + 2].att = 2

(* C15: the first direct decode attempt is tagged with the MIME type of the *)
(* container format (image/avif for aeia, image/webp for aeiw) and the      *)
(* other type is tried only after that attempt failed.                      *)
DirectFormatFirst ==
    \A r \in RunIds :
        /\ DirectAs(r, 1, IF runs[r].parsed.format = "aeia"
                          THEN "image/avif" ELSE "image/webp")
        /\ DirectAs(r, 2, IF runs[r].parsed.format = "aeia"
                          THEN "image/webp" ELSE "image/avif")
        /\ SecondAfterFailure(r)

(* C15, as the code has it: the first direct decode attempt is tagged       *)
(* image/avif whatever the container format, and image/webp is tried only   *)
(* after that attempt failed.                                               *)
DirectAvifFirst ==
    \A r \in RunIds :
        /\ DirectAs(r, 1, "image/avif")
        /\ DirectAs(r, 2, "image/webp")
        /\ SecondAfterFailure(r)

\* an aeiw container whose first direct attempt failed and whose second began
DirectAvifFirstWitness ==
    \E r \in RunIds :
        /\ Len(Attempts(r)) >= 2
        /\ runs[r].parsed.format = "aeiw"
        /\ Attempts(r)[1].mime = "image/avif"

\* a stream of at least 12 bytes that starts with none of RIFF....WEBP,
\* ....ftyp and FF D8 FF
UnknownStream(b) ==
    /\ BLen(b) >= 12
    /\ BTake(b, 3) # Bytes(<<255, 216, 255>>)
    /\ BSlice(b, 4, 8) # Bytes(<<102, 116, 121, 112>>)
    /\ ~(BTake(b, 4) = Bytes(<<82, 73, 70, 70>>)
            /\ BSlice(b, 8, 12) = Bytes(<<87, 69, 66, 80>>))

\* renderToCanvas has returned or thrown for a decrypted stream of run r
Rendered(r) == Has(r, "sniff") /\ runs[r].pc = "done"

JpegShortCircuits ==
    \A r \in RunIds :
        (Has(r, "sniff") /\ BTake(runs[r].fullImage, 3) = Bytes(<<255, 216, 255>>)) =>
            /\ Attempts(r) = <<>>
            /\ \A e \in {"attemptFailed", "bitmapDecoded", "paint", "textPanel",
                         "renderFailedPanel"} : ~Has(r, e)
            /\ Has(r, "unsupportedPanel")
            /\ runs[r].imageData = Null
            /\ runs[r].pc = "done"
            /\ (runs[r].canvasEl = canvas.el /\ canvas.by = r) =>
                  (canvas.kind = "unsupported" /\ canvas.w = 500 /\ canvas.h = 400)

\* a JPEG-like stream longer than 1 MiB was decrypted and sniffed
JpegShortCircuitsWitness ==
    \E r \in RunIds :
        /\ Has(r, "unsupportedPanel")
        /\ BLen(runs[r].parsed.tail) = 100
        /\ canvas.kind = "unsupported" /\ canvas.by = r

(* C18: when every decode strategy has failed, renderToCanvas paints the  *)
(* diagnostic panel and returns normally: the run ends without onError, the *)
(* component's error state stays unset, and a mounted component gets onLoad *)
(* like after any normal return.                                            *)
ExhaustionNotEscalated ==
    \A r \in RunIds :
        Has(r, "renderFailedPanel") =>
            /\ Len(Attempts(r)) = LastAttempt
            /\ Count(r, "attemptFailed") = LastAttempt
            /\ runs[r].pc = "done"
            /\ runs[r].onError = <<>>
            /\ error = <<>>
            /\ ~Has(r, "paintThrew")
            /\ runs[r].mounted => (runs[r].onLoad = 1 /\ loading = FALSE)
            /\ (runs[r].canvasEl = canvas.el /\ canvas.by = r) =>
                  (canvas.kind = "renderFailed" /\ canvas.w = 600 /\ canvas.h = 500)

\* all eight attempts failed for a mounted component and the panel is shown
ExhaustionNotEscalatedWitness ==
    \E r \in RunIds :
        /\ Has(r, "renderFailedPanel")
        /\ runs[r].mounted
        /\ canvas.kind = "renderFailed" /\ canvas.by = r

(* C19: the success notification onLoad is issued only when a bitmap was   *)
(* decoded and painted; a run that ended in the all-strategies-failed or    *)
(* the format-not-supported outcome does not get the notification a         *)
(* painted bitmap gets.                                                     *)
OnLoadOnlyWhenPainted ==
    \A r \in RunIds :
        (Has(r, "sniff") /\ runs[r].onLoad > 0) =>
            /\ Has(r, "bitmapDecoded") /\ Has(r, "paint")
            /\ ~Has(r, "renderFailedPanel") /\ ~Has(r, "unsupportedPanel")

\* what loadImage can tell apart: every way renderToCanvas returns gives
\* the same notification, and only a throw gives a different one
OnLoadOnEveryReturn ==
    \A r \in RunIds :
        (Has(r, "sniff") /\ runs[r].pc = "done" /\ runs[r].mounted) =>
            (runs[r].onLoad = 1 <=> ~Has(r, "paintThrew"))

(* C20: on exhaustion the engine reports exactly one error for each       *)
(* strategy attempt it made, in the order of the attempts; none is dropped  *)
(* and no two are merged into one.                                          *)
OneErrorPerAttempt ==
    \A r \in RunIds :
        Has(r, "renderFailedPanel") =>
            runs[r].caught = [i \in 1..Len(Attempts(r)) |-> {Attempts(r)[i].att}]

\* what the catch variables hold at line 91: four errors for eight attempts
FourErrorsForEight ==
    \A r \in RunIds :
        Has(r, "renderFailedPanel") =>
            /\ Len(Attempts(r)) = 8
            /\ runs[r].caught = <<{1, 2}, {3}, {}, {8}>>

\* the stages of a run, as the events that mark their start
StageEvents ==
    RenderEvents \cup {"parse", "importKey", "decrypt", "decrypted", "reassemble"}

StagesStarted(log) == SelectSeq(log, LAMBDA ev : ev.e \in StageEvents)

(* C21: cancellation is checked at every suspension point.  Once the        *)
(* cleanup of a run has run, no step of that run starts a further stage     *)
(* (parse, key import, decrypt, sniff, decode attempt, paint).              *)
CancelledStartsNothing ==
    [][\A r \in RunIds :
          Superseded(r) =>
              StagesStarted(runs'[r].log) = StagesStarted(runs[r].log)]_vars

\* the one check there is (line 176): a run cancelled before its blob is in
\* hand never reads it
CancelledBeforeBlobStops ==
    [][\A r \in RunIds :
          (Superseded(r) /\ runs[r].pc \in {"timer", "cacheGet", "fetch",
                                            "respBlob", "cachePut"}) =>
              /\ runs'[r].pc \in {runs[r].pc, "fetch", "respBlob", "cachePut",
                                  "cancelled", "done"}
              /\ StagesStarted(runs'[r].log) = <<>>]_vars

\* the last event e of run r's log comes before its first event f
Before(r, e, f) ==
    /\ Has(r, e)
    /\ \A i, j \in 1..Len(runs[r].log) :
          (runs[r].log[i].e = e /\ runs[r].log[j].e = f) => i < j

StageChain == <<"parse", "importKey", "decrypt", "decrypted", "reassemble", "sniff">>

\* parse, decrypt, reassemble, sniff, decode attempts, paint happen in this
\* order, each after the previous one succeeded
StageOrderKept ==
    \A r \in RunIds :
        /\ \A k \in 1..(Len(StageChain) - 1) :
              Has(r, StageChain[k + 1]) => Before(r, StageChain[k], StageChain[k + 1])
        /\ Has(r, "importKey") => runs[r].parsed.ok
        /\ Has(r, "decrypted") => ~Has(r, "decryptRejected")
        /\ \A e \in RenderEvents \ {"sniff"} : Has(r, e) => Before(r, "sniff", e)
        /\ Has(r, "bitmapDecoded") => Len(Attempts(r)) > 0
        /\ Has(r, "paint") => Before(r, "bitmapDecoded", "paint")

\* the head that is joined with the tail is the decrypted head as it came
\* out of AES-GCM: nothing was sniffed or cut before the concatenation
HeadJoinedUntouched ==
    \A r \in RunIds :
        Has(r, "reassemble") =>
            /\ runs[r].decryptedHead = runs[r].decryptedBytes
            /\ runs[r].fullImage = BCat(runs[r].decryptedBytes, runs[r].parsed.tail)

(* C22: within one run the stages occur in the order parse, decrypt,        *)
(* reassemble, sniff, decode-fallback, paint, each after the previous one   *)
(* succeeded, and the decrypted head is neither sniffed nor trimmed before  *)
(* it has been concatenated with the tail.                                  *)
StrictStageOrder == StageOrderKept /\ HeadJoinedUntouched

(* C23: the presentation step lets no exception escape.  Whatever happens *)
(* while the canvas is resized and the decoded bitmap is drawn,             *)
(* renderToCanvas returns normally (the run ends like any normal return,    *)
(* without onError) and the canvas shows a painted state.                   *)
PaintNeverThrows ==
    \A r \in RunIds :
        (Has(r, "bitmapDecoded") /\ runs[r].pc = "done") =>
            /\ ~Has(r, "paintThrew")
            /\ runs[r].onError = <<>>
            /\ runs[r].mounted => (runs[r].onLoad = 1 /\ error = <<>>)
            /\ (runs[r].canvasEl = canvas.el /\ canvas.by = r) =>
                  canvas.kind = "bitmap"

\* what happens instead: the throw of lines 112-123 reaches loadImage's catch
PaintThrowReported ==
    \A r \in RunIds :
        (Has(r, "paintThrew") /\ runs[r].mounted /\ ~runs[r].aborted) =>
            /\ runs[r].onError = <<<<"Canvas 2D context">>>>
            /\ error = <<"Canvas 2D context">>
            /\ runs[r].onLoad = 0

(* C24: a failure of the cache never fails a load.  A failed get behaves   *)
(* as 'absent' (the run goes on to fetch), a failed put stores nothing and  *)
(* is skipped (the run goes on with the fetched bytes), and no error of the *)
(* cache reaches the error state or onError.                                *)
CacheFailureHarmless ==
    /\ error # <<"CacheError">>
    /\ \A r \in RunIds :
          /\ \A i \in 1..Len(runs[r].onError) : runs[r].onError[i] # <<"CacheError">>
          /\ Has(r, "cacheGetFailed") =>
                /\ ~Has(r, "cacheHit")
                /\ Before(r, "cacheGetFailed", "fetch")
                /\ runs[r].pc # "cacheGet"
                /\ runs[r].blob \in {Null, server[UrlOf(r)].body}
          /\ Has(r, "cachePutFailed") =>
                /\ Before(r, "cachePutFailed", "cachePut")
                /\ runs[r].blob = server[UrlOf(r)].body
                /\ runs[r].pc # "cachePut"
                /\ Has(r, "paint") => (runs[r].mounted => runs[r].onLoad = 1)

\* the get failed, the run fetched the bytes, the put failed too, and the
\* run still painted and reported success
CacheFailureHarmlessWitness ==
    \E r \in RunIds :
        /\ Has(r, "cacheGetFailed") /\ Has(r, "cachePutFailed")
        /\ Has(r, "paint") /\ runs[r].onLoad = 1 /\ runs[r].onError = <<>>

\* run r's fetch was answered with a status outside 200..299
Refused(r) == Has(r, "response") /\ server[UrlOf(r)].status \notin 200..299

(* C25: when the fetch answers with a non-success HTTP status, the run      *)
(* fails with an error that carries that status and reports it through      *)
(* onError; it writes nothing to the cache and parses, decrypts and paints  *)
(* nothing.                                                                 *)
BadStatusReported ==
    \A r \in RunIds :
        Refused(r) =>
            /\ runs[r].pc = "done"
            /\ StagesStarted(runs[r].log) = <<>>
            /\ ~Has(r, "cachePut") /\ ~Has(r, "cachePutFailed")
            /\ cache[UrlOf(r)] = Null
            /\ runs[r].blob = Null
            /\ canvas.by # r
            /\ runs[r].onLoad = 0
            /\ (runs[r].mounted /\ ~runs[r].aborted) =>
                  /\ runs[r].onError =
                        << <<"LoadFailed", statusLine(server[UrlOf(r)].status)>> >>
                  /\ error = <<"LoadFailed", statusLine(server[UrlOf(r)].status)>>

\* a 500 answer was reported with its status
BadStatusReportedWitness ==
    \E r \in RunIds :
        /\ Refused(r)
        /\ server[UrlOf(r)].status = 500
        /\ runs[r].onError = << <<"LoadFailed", "500 Internal Server Error">> >>

\* the keys of the input set that fail the shape check of decrypt.ts 37-43
BadShapeKeys == {k \in KeyHexes : ~keyBytesOf(k).ok}

\* crypto.subtle.decrypt is about to reject run r's cipher and tag
AuthRejects(r) == runs[r].pc = "decrypt" /\ ~decrypted(runs[r]).ok

\* the error decryptHeadAESGCM throws for run r, and the one it throws for
\* the same container when the key is k instead
AuthFailure(r) == AfterDecrypt(runs[r], canvas, r).err
KeyShapeFailure(r, k) == AfterArrayBuffer([runs[r] EXCEPT !.aesKey = k], canvas).err

(* C26: a bad-key-shape failure and an AEAD authentication failure reach    *)
(* the caller of decrypt as two distinct failure kinds; they do not differ  *)
(* in the message text only.                                                *)
FailureKindsDistinct ==
    \A r \in RunIds :
        AuthRejects(r) =>
            \A k \in BadShapeKeys : KeyShapeFailure(r, k).name # AuthFailure(r).name

\* what the catch of decrypt.ts 141-145 gives: the same Error kind, and a
\* message that names the cause
FailuresDifferInTextOnly ==
    \A r \in RunIds :
        AuthRejects(r) =>
            \A k \in BadShapeKeys :
                /\ KeyShapeFailure(r, k).name = "Error"
                /\ AuthFailure(r).name = "Error"
                /\ KeyShapeFailure(r, k).message[1] = AuthFailure(r).message[1]
                /\ KeyShapeFailure(r, k).message # AuthFailure(r).message

(* C27: the error text shown to the end user and passed to onError for a    *)
(* cryptographic failure is the same for every cause: a run whose key has   *)
(* a bad shape shows the text that a run with a wrong key, a corrupted      *)
(* ciphertext or a tampered tag or IV shows for the same container.         *)
CryptoFailureTextUniform ==
    \A r \in RunIds :
        AuthRejects(r) =>
            \A k \in BadShapeKeys :
                errorMessage(KeyShapeFailure(r, k)) = errorMessage(AuthFailure(r))

\* the part that is uniform: every rejection by AES-GCM (wrong key, flipped
\* bit in the cipher, the tag or the IV) is reported with one and the same text
AuthFailureTextUniform ==
    \A r \in RunIds :
        (Has(r, "decryptRejected") /\ runs[r].mounted /\ ~runs[r].aborted) =>
            /\ runs[r].onError = << <<"DecryptFailed", "OperationError">> >>
            /\ error = <<"DecryptFailed", "OperationError">>

(* C28: the verification script round-trips the encryption script: for   *)
(* every file P and key K, decryptFile applied to the file written by       *)
(* encryptFile(P, K) returns P, so the comparison with the original         *)
(* reports a match.                                                         *)
VerifyRoundTrip ==
    \A u \in Urls :
        server[u].made = "built" =>
            verifyMatches(server[u].body, server[u].key, server[u].plain)

\* what the script does with a file of encryptFile: it takes the magic and
\* the first 8 bytes of the IV for the IV, the rest of the IV and 12 bytes
\* of ciphertext for the tag, and the authentication fails
VerifyRejectsContainer ==
    \A u \in Urls :
        server[u].made = "built" =>
            /\ BSlice(server[u].body, 0, 4) \in {MagicAeia, MagicAeiw}
            /\ ~decryptFile(server[u].body, server[u].key).ok

\* every run that was started has ended
AllSettled == \A r \in RunIds : runs[r].pc \in {"none", "cancelled", "done"}

\* run r drew on the canvas element that is mounted now
Drew(r) ==
    \/ Has(r, "placeholder")
    \/ /\ runs[r].canvasEl = canvas.el
       /\ \E e \in {"paint", "paintThrew", "textPanel", "unsupportedPanel",
                    "renderFailedPanel"} : Has(r, e)

\* the canvas finally shows what the newest run drew on it
FinalShowsNewest ==
    (AllSettled /\ cur # 0 /\ Drew(cur)) => canvas.by = cur

(* C29: no stale paint.  A superseded run never paints or resizes the       *)
(* canvas after its cleanup has run, so that under every interleaving of    *)
(* the runs' completions the canvas finally shows the result of the newest  *)
(* request.                                                                 *)
NoStalePaint ==
    [][\A r \in RunIds :
          Superseded(r) => (canvas' = canvas \/ canvas'.by # r)]_vars

\* a lower bound on the decoder calls and element loads of run r's render
\* call that have not ended: the attempt being awaited, and the elements
\* abandoned by a timeout
InFlight(r) ==
    (IF runs[r].pc \in {"decode", "imgLoad", "snapshot"} THEN 1 ELSE 0)
        + (IF runs[r].abandoned THEN 1 ELSE 0)

(* C30: decode strategies are never raced.  At every moment at most one     *)
(* strategy attempt (decoder call or image-element load) of a render call   *)
(* is in flight, also after an attempt has timed out and the next strategy  *)
(* has been started.                                                        *)
OneAttemptInFlight == \A r \in RunIds : InFlight(r) <= 1

\* what the engine does keep: it awaits one attempt at a time, and starts
\* attempt n + 1 only after the promise of attempt n was rejected
OneAttemptAwaited ==
    \A r \in RunIds :
        /\ Count(r, "attemptFailed") \in {Len(Attempts(r)), Len(Attempts(r)) - 1}
        /\ InAttempt(r) => Count(r, "attemptFailed") = Len(Attempts(r)) - 1
        /\ \A i \in 1..Len(Attempts(r)) : Attempts(r)[i].att = i

(* C31: no decoder resource leak.  Every ImageBitmap created during a     *)
(* render call is closed; a bitmap produced by a strategy that failed or    *)
(* timed out does not stay open.                                            *)
NoBitmapLeak == \A r \in RunIds : ~runs[r].leaked

\* a bitmap is left open only by an element that loaded after its attempt
\* had timed out
LeakOnlyAfterTimeout ==
    [][\A r \in RunIds :
          (runs'[r].leaked /\ ~runs[r].leaked) =>
              (runs[r].abandoned /\ ~runs'[r].abandoned
                  /\ runs'[r].log = runs[r].log /\ canvas' = canvas)]_vars

\* the stream has at least 8 bytes and bytes [4, 8) are "ftyp"
FtypAt4(b) == BLen(b) >= 8 /\ BSlice(b, 4, 8) = Bytes(Ftyp)

\* the stream matches none of the signatures
NoSignature(b) ==
    /\ ~(BLen(b) >= 3 /\ BTake(b, 3) = Bytes(<<255, 216, 255>>))
    /\ ~(BLen(b) >= 12 /\ BTake(b, 4) = Bytes(<<82, 73, 70, 70>>)
                       /\ BSlice(b, 8, 12) = Bytes(<<87, 69, 66, 80>>))
    /\ ~FtypAt4(b)

\* sniffing always gives a classification: exactly one of the unsupported
\* panel, the text panel and the first decode attempt follows it
SniffTotal ==
    \A r \in RunIds :
        Has(r, "sniff") =>
            /\ ~Has(r, "unsupportedPanel") \/ ~Has(r, "textPanel")
            /\ Attempts(r) # <<>> =>
                  (~Has(r, "unsupportedPanel") /\ ~Has(r, "textPanel"))
            /\ Has(r, "unsupportedPanel") \/ Has(r, "textPanel") \/ Attempts(r) # <<>>

(* C32: sniffing is total and exact.  For a stream of any length it gives   *)
(* a classification; the stream counts as AVIF if and only if it has at     *)
(* least 8 bytes and bytes [4, 8) are "ftyp"; a stream that matches no      *)
(* signature is Unknown and gets the text panel, not the decode attempts.   *)
SniffExact ==
    /\ SniffTotal
    /\ \A r \in RunIds :
          Has(r, "sniff") =>
              /\ hasAvifHeader(runs[r].fullImage) <=> FtypAt4(runs[r].fullImage)
              /\ NoSignature(runs[r].fullImage) =>
                    (Has(r, "textPanel") /\ Attempts(r) = <<>>)

\* from 8 bytes on the AVIF test is exact
SniffExactFrom8 ==
    \A r \in RunIds :
        (Has(r, "sniff") /\ BLen(runs[r].fullImage) >= 8) =>
            /\ hasAvifHeader(runs[r].fullImage) <=> FtypAt4(runs[r].fullImage)
            /\ NoSignature(runs[r].fullImage) =>
                  (Has(r, "textPanel") /\ Attempts(r) = <<>>)

\* 64 hexadecimal characters
IsHexKey(keyHex) ==
    Len(keyHex) = 64 /\ \A i \in 1..Len(keyHex) : IsHexDigit(keyHex[i])

(* C33: a key string is accepted only if it consists of 64 hexadecimal      *)
(* characters; a string with a non-hexadecimal character is rejected with   *)
(* a key-format error before decryption and never becomes a 32-byte key.    *)
KeyFormatChecked ==
    \A r \in RunIds :
        /\ Has(r, "importKey") => IsHexKey(runs[r].aesKey)
        /\ (Accepted(r) /\ ~IsHexKey(runs[r].aesKey)) =>
              (~keyBytesOf(runs[r].aesKey).ok /\ ~Has(r, "decrypt"))

\* what becomes of 64 characters that are no hexadecimal digits: the key of
\* 32 zero bytes, which is imported and used
NonHexBecomesZeroKey ==
    \A r \in RunIds :
        (Accepted(r) /\ runs[r].aesKey = KeyNotHex) =>
            /\ keyBytesOf(runs[r].aesKey) = [ok |-> TRUE, bytes |-> Rep(0, 32)]
            /\ Has(r, "importKey")
            /\ runs[r].pc = "done" => Has(r, "decryptRejected")

\* "RIFF" at bytes [0, 4) and something other than "WEBP" at bytes [8, 12)
RiffNotWebp(b) ==
    /\ BLen(b) >= 12
    /\ BTake(b, 4) = Bytes(<<82, 73, 70, 70>>)
    /\ BSlice(b, 8, 12) # Bytes(<<87, 69, 66, 80>>)

(* C34: a stream with "RIFF" at bytes [0, 4) but not "WEBP" at bytes        *)
(* [8, 12) is classified Riff, not Unknown: it is not length-trimmed and    *)
(* it is handed to the decode strategies, not to the text panel.            *)
RiffHandedToDecoders ==
    \A r \in RunIds :
        (Rendered(r) /\ RiffNotWebp(runs[r].fullImage)) =>
            /\ Attempts(r) # <<>>
            /\ ~Has(r, "textPanel")
            /\ runs[r].imageData = runs[r].fullImage

\* such a stream is left as long as it is, and it is shown as text
RiffShownAsText ==
    \A r \in RunIds :
        (Rendered(r) /\ RiffNotWebp(runs[r].decryptedBytes)) =>
            /\ runs[r].decryptedHead = runs[r].decryptedBytes
            /\ runs[r].fullImage = server[UrlOf(r)].plain
            /\ Has(r, "textPanel") /\ Attempts(r) = <<>>

(* C35: cache discipline.  A run touches the cache only under its own URL  *)
(* and in read-then-write order: the lookup comes first, the network is     *)
(* asked only after a miss, and what is written is the fetched container    *)
(* after a successful fetch, never on a hit, never anything decrypted.      *)
CacheDiscipline ==
    /\ \A u \in Urls :
          /\ cache[u] \in {Null, server[u].body}
          /\ cache[u] # Null =>
                \E r \in RunIds : /\ UrlOf(r) = u
                                  /\ Has(r, "cachePut") /\ ~Has(r, "cachePutFailed")
    /\ ~cacheOn => \A u \in Urls : cache[u] = Null
    /\ \A r \in RunIds :
          /\ Has(r, "cacheHit") =>
                /\ cacheOn
                /\ ~Has(r, "fetch") /\ ~Has(r, "response") /\ ~Has(r, "cachePut")
                /\ runs[r].blob = server[UrlOf(r)].body
          /\ (cacheOn /\ Has(r, "response")) => Has(r, "fetch")
          /\ Has(r, "cachePut") =>
                /\ Has(r, "response") /\ responseOk(server[UrlOf(r)].status)
                /\ runs[r].blob = server[UrlOf(r)].body
                /\ Count(r, "cachePut") = 1

\* one run fetched and stored the container, the next run of the same URL
\* was served from the cache and asked neither the network nor put
CacheDisciplineWitness ==
    /\ Has(1, "cachePut") /\ cache[UrlOf(1)] = server[UrlOf(1)].body
    /\ Has(2, "cacheHit") /\ UrlOf(2) = UrlOf(1) /\ runs[2].pc = "done"

(* C36: no cache poisoning.  An entry is left in the cache only for a      *)
(* container that the storing run went on to parse and decrypt; a fetched   *)
(* body that fails parsing or authentication is not kept.                   *)
NoCachePoisoning ==
    \A r \in RunIds :
        (runs[r].pc = "done" /\ Has(r, "cachePut") /\ PipelineFailed(r)) =>
            cache[UrlOf(r)] = Null

\* what is kept: whatever a successful fetch returned stays in the cache
\* when the put worked, whether or not the run could use it
FetchedBodyKept ==
    \A r \in RunIds :
        (Has(r, "cachePut") /\ ~Has(r, "cachePutFailed")) =>
            cache[UrlOf(r)] = server[UrlOf(r)].body

\* the tail the server's edited container carries for run r
ServedTail(r) ==
    EditedTail(BSliceFrom(Served(r).plain, cipherSize), Served(r).region)

(* C37: only the IV, the ciphertext and the tag are authenticated.  For a   *)
(* container of at least 32 + 1 MiB bytes, changing, appending or removing  *)
(* plain tail bytes causes no parse or decryption failure, and the edited   *)
(* tail is the end of the reassembled stream, byte for byte.                *)
TailNotAuthenticated ==
    \A r \in RunIds :
        (Loads(r) /\ Served(r).made = "tail" /\ RightKey(r)) =>
            /\ Has(r, "parse") =>
                  /\ runs[r].parsed.ok
                  /\ BLen(runs[r].parsed.cipher) = cipherSize
                  /\ runs[r].parsed.tail = ServedTail(r)
            /\ ~Has(r, "decryptRejected")
            /\ DecryptSettled(r) =>
                  /\ runs[r].decryptedBytes = BTake(Served(r).plain, cipherSize)
                  /\ Has(r, "reassemble") /\ Has(r, "sniff")
                  /\ BLen(runs[r].fullImage) >= BLen(ServedTail(r))
                  /\ BDrop(runs[r].fullImage,
                           BLen(runs[r].fullImage) - BLen(ServedTail(r))) = ServedTail(r)

\* a container whose tail was changed was decrypted and painted; another
\* way to say where its tail went
TailNotAuthenticatedWitness ==
    \E r \in RunIds :
        /\ Loads(r)
        /\ Served(r).made = "tail" /\ Served(r).region = "change"
        /\ BLen(ServedTail(r)) = 100
        /\ ServedTail(r) # BSliceFrom(Served(r).plain, cipherSize)
        /\ Has(r, "paint")
        /\ BSliceFrom(runs[r].fullImage, cipherSize) = ServedTail(r)

\* the callbacks run r has issued
Callbacks(r) == runs[r].onLoad + Len(runs[r].onError)

\* run r was started and its cleanup has not run
Live(r) == runs[r].pc # "none" /\ runs[r].mounted

\* a run issues at most one callback, none before it ends, and a run that
\* ends uncancelled has issued one and left loading = false
OneCallbackAtEnd ==
    \A r \in RunIds :
        /\ Callbacks(r) <= 1
        /\ runs[r].pc # "done" => Callbacks(r) = 0
        /\ (Live(r) /\ runs[r].pc = "done") => (Callbacks(r) = 1 /\ ~loading)

(* C38: provided every awaited call settles, each run that is not cancelled *)
(* invokes exactly one of onLoad and onError, exactly once, and ends with   *)
(* loading = false; the newest run, started while an older one was in       *)
(* flight, completes as well.                                               *)
Completion ==
    /\ []OneCallbackAtEnd
    /\ \A r \in RunIds : Live(r) ~> (~runs[r].mounted \/ runs[r].pc = "done")

\* load B was started while load A was in flight; A was cut off without a
\* callback and B ran to its end and reported it
CompletionWitness ==
    /\ cur = 2
    /\ Has(1, "fetch") /\ runs[1].pc # "done" /\ Callbacks(1) = 0
    /\ runs[2].pc = "done" /\ Has(2, "paint")
    /\ runs[2].onLoad = 1 /\ runs[2].onError = <<>>
    /\ ~loading

\* run r has been started
Started(r) == runs[r].pc # "none"

(* C39: one run per selection.  Selecting an image once leads to one        *)
(* pipeline run: the firing of onLoad or onError and the re-render of the   *)
(* parent do not make the load effect run again, so the same contentId and  *)
(* key are never fetched and decrypted a second time.                       *)
OneRunPerSelection ==
    \A p, q \in RunIds :
        (p < q /\ Started(p) /\ Started(q)) =>
            (runs[p].contentId # runs[q].contentId \/ runs[p].aesKey # runs[q].aesKey)

\* what the callbacks do not cause: a run that has not reported is never
\* replaced, and a run ending as the one before it did is the last
RerunOnlyAfterNews ==
    \A q \in RunIds :
        (q > 1 /\ Started(q)) =>
            /\ runs[q - 1].pc = "done" /\ Callbacks(q - 1) = 1
            /\ HomeAfter(q - 1) # HomeAfter(q - 2)

\* the same file was fetched and decrypted by two runs in a row
DecryptedTwice ==
    /\ Has(1, "fetch") /\ Has(1, "decrypted") /\ runs[1].onLoad = 1
    /\ Has(2, "fetch") /\ Has(2, "decrypted")
    /\ runs[2].contentId = runs[1].contentId /\ runs[2].aesKey = runs[1].aesKey

====
